---- MODULE Spec2Model ----
(***************************************************************************)
(* A model of export.py: the conversation reconstruction pipeline          *)
(* (parse_messages), the export manifest (update_manifest), the main       *)
(* block, the markdown transducer (md_to_html) and the tool formatters     *)
(* (tool_summary, tool_full_detail and the tool parts of the renderers),   *)
(* the plain text embedded in the page (generate_raw_text, RAW_TEXT) and   *)
(* the search of the page (doSearch, highlightMatches, clearHighlights,    *)
(* closeSearch).                                                           *)
(*                                                                         *)
(* Strings are sequences of one-character strings, so that trimming,       *)
(* concatenation and the system-reminder regular expression are computed   *)
(* character by character.  A JSON value is a record of fixed shape; a key *)
(* that the code reads with .get(key, default) and that is absent is the   *)
(* empty value of its field.                                               *)
(*                                                                         *)
(* The logs explored hold lines that do not parse, lines that parse to a   *)
(* value without "type", and records whose message is a mapping with a     *)
(* string or list content and string texts; the other ways in which a      *)
(* malformed record makes parse_messages raise are not explored.  The      *)
(* "input" mapping of a tool_use block is copied to the tool entry         *)
(* unchanged and is left out.  In SpecManifest and in the main block       *)
(* update_manifest is taken as one step: the exports of a behaviour        *)
(* follow one another.  In SpecRuns the calls of several export runs are   *)
(* interleaved statement by statement, and the write is two steps: the     *)
(* file is opened, which empties it, and the text is written.              *)
(*                                                                         *)
(* The main block is explored without --name, --out and --project; the     *)
(* renderers it calls are taken by their outcome (a file written or an     *)
(* exception).  md_to_html is computed rule by rule on texts that mix the  *)
(* characters of the input with the markup emitted.  The values of a tool  *)
(* input are strings; a formatter gives the list of the parts it joins.    *)
(*                                                                         *)
(* The page searched shows one turn.  An element of the page is the list   *)
(* of its text nodes and highlight spans in document order, each with its  *)
(* parent: the element or a <strong> element inside it.                    *)
(***************************************************************************)
EXTENDS Integers, Sequences, FiniteSets, TLC

VARIABLES
    file,                \* the lines of the JSONL log, in file order
    pc,                  \* position in parse_messages
    idx,                 \* loop index of the running for-loop
    all_records,         \* export.py:263
    tool_results_map,    \* export.py:260  tool_use_id -> result text
    tool_result_images,  \* export.py:261  tool_use_id -> list of data URIs
    messages,            \* export.py:258  the turn sequence returned
    origin,              \* history: origin[j] = index in all_records of the
                         \* record that messages[j] was built from
    manifest_file,       \* manifest.json in the exports directory
    last_export,         \* history: output path -> the entry of the most
                         \* recent update_manifest call for that path
    export_count,        \* history: output path -> number of calls for it
    last_written,        \* history: the entry of the most recent
                         \* update_manifest call, as a list of 0 or 1 entry
    args,                \* export.py:1503  the parsed command line
    env,                 \* what the run finds outside: the logs the
                         \* collaborators locate and what git answers
    main_pc,             \* position in the main block
    session_idx,         \* export.py:1525  index of jsonl_path in sessions
    jsonl_path,          \* export.py:1560  the resolved log, 0 or 1 of them
    out_files,           \* output path -> what the export written there says
    landing_page,        \* index.html in the exports directory
    reported,            \* the ERROR lines printed, in order
    processed,           \* history: the sessions whose loop body has run
    dirs_made,           \* whether the exports directory has been created
    md_in,               \* export.py:121  the text given to md_to_html
    md_out,              \* export.py:122-163  the text as rewritten so far
    md_stage,            \* the rules of md_to_html applied so far
    tool,                \* a tool entry of a turn: name, input, result
    shown,               \* formatter or renderer -> the text it emitted
    tool_pc,             \* whether the formatters have run
    page_turn,           \* the turn given to generate_html: role, text, tool
    raw_text_js,         \* export.py:1055, the value of RAW_TEXT in the page
    embed_pc,            \* whether the plain text has been embedded
    dom,                 \* the elements of the page that the search reads
    loaded,              \* history: dom and RAW_TEXT as the page was loaded
    panel,               \* the search panel and what it shows
    currentHighlights,   \* export.py:1072, the number of spans it holds
    search_pc,           \* the page is loaded, searched or the search closed
    runs,                \* the calls of update_manifest under way, one for
                         \* each export run: position, arguments, the local
                         \* list "manifest", the entry appended
    manifest_chars,      \* the number of characters manifest.json holds
    wrote                \* history: the runs in the order they wrote

parseVars == <<file, pc, idx, all_records, tool_results_map,
               tool_result_images, messages, origin>>

manifestVars == <<manifest_file, last_export, export_count, last_written>>

mainVars == <<args, env, main_pc, session_idx, jsonl_path, out_files,
              landing_page, reported, processed, dirs_made>>

mdVars == <<md_in, md_out, md_stage>>

toolVars == <<tool, shown, tool_pc>>

embedVars == <<page_turn, raw_text_js, embed_pc>>

searchVars == <<dom, loaded, panel, currentHighlights, search_pc>>

runVars == <<runs, manifest_chars, wrote>>

vars == <<parseVars, manifestVars, mainVars, mdVars, toolVars, embedVars,
          searchVars, runVars>>

-----------------------------------------------------------------------------
(* Strings *)

\* The characters str.strip() removes (two of them stand for the class).
Whitespace == {" ", "\n"}

RECURSIVE LStrip(_)
LStrip(s) ==
    IF s # <<>> /\ Head(s) \in Whitespace THEN LStrip(Tail(s)) ELSE s

RECURSIVE RStrip(_)
RStrip(s) ==
    IF s # <<>> /\ s[Len(s)] \in Whitespace
    THEN RStrip(SubSeq(s, 1, Len(s) - 1))
    ELSE s

\* str.strip()
Strip(s) == RStrip(LStrip(s))

\* s[p..] starts with t
StartsAt(s, p, t) ==
    /\ p + Len(t) - 1 <= Len(s)
    /\ SubSeq(s, p, p + Len(t) - 1) = t

\* t in s
Contains(s, t) == \E p \in 1..(Len(s) + 1) : StartsAt(s, p, t)

\* The two markers of a system-injected annotation.  The tag name
\* "system-reminder" is written with the single character "s".
OpenMarker == <<"<", "s", ">">>
CloseMarker == <<"<", "/", "s", ">">>

\* The positions q >= p at which CloseMarker starts in s.
ClosesFrom(s, p) == {q \in p..Len(s) : StartsAt(s, q, CloseMarker)}

Min(S) == CHOOSE m \in S : \A n \in S : m <= n

\* re.sub(r'<system-reminder>.*?</system-reminder>', '', s, flags=re.DOTALL):
\* one left-to-right pass; at each open marker the shortest span up to the
\* next close marker is dropped and the scan resumes after it.
RECURSIVE RemoveSpansFrom(_, _)
RemoveSpansFrom(s, p) ==
    IF p > Len(s) THEN <<>>
    ELSE IF StartsAt(s, p, OpenMarker)
            /\ ClosesFrom(s, p + Len(OpenMarker)) # {}
         THEN RemoveSpansFrom(s, Min(ClosesFrom(s, p + Len(OpenMarker)))
                                   + Len(CloseMarker))
         ELSE <<s[p]>> \o RemoveSpansFrom(s, p + 1)

RemoveSpans(s) == RemoveSpansFrom(s, 1)

-----------------------------------------------------------------------------
(* JSON values of the log *)

\* The "source" object of an image block; media_type "" is an absent key.
Source(type, media_type, data) ==
    [type |-> type, media_type |-> media_type, data |-> data]

NoSource == Source("", "", "")

\* A sub-block of a tool_result's list content.
SubBlock(type, text, source) ==
    [isdict |-> TRUE, type |-> type, text |-> text, source |-> source]

\* A list element that is not a mapping (a bare string, a number).
NotADict == [isdict |-> FALSE, type |-> "", text |-> <<>>, source |-> NoSource]

\* The "content" of a tool_result block: a single string or a list.
StrContent(s) == [isstr |-> TRUE, str |-> s, list |-> <<>>]
ListContent(l) == [isstr |-> FALSE, str |-> <<>>, list |-> l]

\* A content block of a message.
Block(type, text, id, name, content, source) ==
    [isdict |-> TRUE, type |-> type, text |-> text, id |-> id, name |-> name,
     content |-> content, source |-> source]

TextBlock(s) == Block("text", s, "", "", StrContent(<<>>), NoSource)
ToolUse(id, name) == Block("tool_use", <<>>, id, name, StrContent(<<>>), NoSource)
ToolResult(id, content) == Block("tool_result", <<>>, id, "", content, NoSource)
ImageBlock(source) == Block("image", <<>>, "", "", StrContent(<<>>), source)
OtherBlock == Block("thinking", <<>>, "", "", StrContent(<<>>), NoSource)
NonDictBlock ==
    [isdict |-> FALSE, type |-> "", text |-> <<>>, id |-> "", name |-> "",
     content |-> StrContent(<<>>), source |-> NoSource]

\* One line of the file.  parses: json.loads succeeds; hastype: the value is
\* an object with a "type" key; role "" is an absent "role" key.
Line(parses, hastype, type, role, content, timestamp) ==
    [parses |-> parses, hastype |-> hastype, type |-> type, role |-> role,
     content |-> content, timestamp |-> timestamp]

Record(type, role, content, timestamp) ==
    Line(TRUE, TRUE, type, role, content, timestamp)

\* A line that is not JSON (also an empty line).
BadLine == Line(FALSE, FALSE, "", "", ListContent(<<>>), "")

\* A line that is JSON but no object with a "type" key.
NoTypeLine == Line(TRUE, FALSE, "", "", ListContent(<<>>), "")

-----------------------------------------------------------------------------
(* parse_messages: the record loader *)

\* Mutant of LoadLine: no "continue" in the except branch, so the record
\* parsed last is appended once more.
LoadLineStale(records, line) ==
    IF line.parses THEN Append(records, line)
    ELSE IF records = <<>> THEN records
    ELSE Append(records, records[Len(records)])

\* try: d = json.loads(line) / except JSONDecodeError: continue / append
LoadLine(records, line) ==
    IF line.parses THEN Append(records, line) ELSE records

RECURSIVE LoadRecords(_)
LoadRecords(lines) ==
    IF lines = <<>> THEN <<>>
    ELSE LoadLine(LoadRecords(SubSeq(lines, 1, Len(lines) - 1)),
                  lines[Len(lines)])

-----------------------------------------------------------------------------
(* parse_messages: the first pass, collecting tool results *)

\* f"data:{src.get('media_type','image/jpeg')};base64,{src.get('data','')}"
DataUri(src) ==
    <<"data:",
      IF src.media_type = "" THEN "image/jpeg" ELSE src.media_type,
      ";base64,", src.data>>

Get(m, k, default) == IF k \in DOMAIN m THEN m[k] ELSE default

Put(m, k, v) == [x \in (DOMAIN m) \cup {k} |-> IF x = k THEN v ELSE m[x]]

EmptyMap == [x \in {} |-> <<>>]

\* result_text before the final strip
RECURSIVE ResultTextOfList(_)
ResultTextOfList(l) ==
    IF l = <<>> THEN <<>>
    ELSE LET rc == l[Len(l)]
             before == ResultTextOfList(SubSeq(l, 1, Len(l) - 1))
         IN  IF rc.isdict /\ rc.type = "text"
             THEN before \o rc.text \o <<"\n">>
             ELSE before

ResultText(content) ==
    IF content.isstr THEN content.str ELSE ResultTextOfList(content.list)

RECURSIVE ResultImagesOfList(_)
ResultImagesOfList(l) ==
    IF l = <<>> THEN <<>>
    ELSE LET rc == l[Len(l)]
             before == ResultImagesOfList(SubSeq(l, 1, Len(l) - 1))
         IN  IF rc.isdict /\ rc.type = "image" /\ rc.source.type = "base64"
             THEN Append(before, DataUri(rc.source))
             ELSE before

ResultImages(content) ==
    IF content.isstr THEN <<>> ELSE ResultImagesOfList(content.list)

\* Mutants of StoreText: the strip forgotten; the text appended to what the
\* id already has.
StoreTextUntrimmed(map, tuid, text) == Put(map, tuid, text)

StoreTextConcat(map, tuid, text) ==
    Put(map, tuid, Get(map, tuid, <<>>) \o Strip(text))

\* tool_results_map[tuid] = result_text.strip()
StoreText(map, tuid, text) == Put(map, tuid, Strip(text))

\* Mutant of StoreImages: the list is stored also when it is empty.
StoreImagesAlways(map, tuid, images) == Put(map, tuid, images)

\* if images: tool_result_images[tuid] = images
StoreImages(map, tuid, images) ==
    IF images # <<>> THEN Put(map, tuid, images) ELSE map

\* The body of "for block in content" of the first pass; maps is the pair
\* of dictionaries.
CollectBlock(maps, block) ==
    IF block.isdict /\ block.type = "tool_result" /\ block.id # ""
    THEN [text   |-> StoreText(maps.text, block.id, ResultText(block.content)),
          images |-> StoreImages(maps.images, block.id,
                                 ResultImages(block.content))]
    ELSE maps

RECURSIVE CollectBlocks(_, _)
CollectBlocks(maps, blocks) ==
    IF blocks = <<>> THEN maps
    ELSE CollectBlock(CollectBlocks(maps, SubSeq(blocks, 1, Len(blocks) - 1)),
                      blocks[Len(blocks)])

\* The records the first pass reads tool results from.
IsResultCarrier(d) == d.type = "user" /\ ~d.content.isstr

\* The body of "for d in all_records" of the first pass, for a record that
\* has a "type".
CollectRecord(maps, d) ==
    IF IsResultCarrier(d) THEN CollectBlocks(maps, d.content.list) ELSE maps

-----------------------------------------------------------------------------
(* parse_messages: the second pass, building turns *)

\* role = msg.get('role', d['type'])
RoleOf(d) == IF d.role = "" THEN d.type ELSE d.role

\* if isinstance(content, str): content = [{"type": "text", "text": content}]
ContentBlocks(d) ==
    IF d.content.isstr THEN <<TextBlock(d.content.str)>> ELSE d.content.list

\* Mutant of KeptTexts: the text is appended in place of the cleaned text.
KeptTextsUncleaned(role, text) ==
    IF Contains(text, OpenMarker) /\ role = "user"
    THEN LET cleaned == Strip(RemoveSpans(text))
         IN  IF cleaned # <<>> THEN <<Strip(text)>> ELSE <<>>
    ELSE IF Strip(text) # <<>> THEN <<text>> ELSE <<>>

\* The texts a text block adds to turn['texts']: none or one.
KeptTexts(role, text) ==
    IF Contains(text, OpenMarker) /\ role = "user"
    THEN LET cleaned == Strip(RemoveSpans(text))
         IN  IF cleaned # <<>> THEN <<cleaned>> ELSE <<>>
    ELSE IF Strip(text) # <<>> THEN <<text>> ELSE <<>>

\* tool_entry (without "input", which is block.get('input', {}) as it is)
ToolEntry(block, trm, tri) ==
    [name          |-> IF block.name = "" THEN "unknown" ELSE block.name,
     id            |-> block.id,
     result        |-> Get(trm, block.id, <<>>),
     result_images |-> Get(tri, block.id, <<>>)]

\* Mutants of AddBlock: a tool_result's string content is shown as a text
\* of the turn; an invocation without result is left out.
AddBlockResultAsText(turn, block, trm, tri) ==
    IF ~block.isdict THEN turn
    ELSE IF block.type = "text"
    THEN [turn EXCEPT !.texts = @ \o KeptTexts(turn.role, block.text)]
    ELSE IF block.type = "tool_result" /\ block.content.isstr
    THEN [turn EXCEPT !.texts = @ \o KeptTexts(turn.role, block.content.str)]
    ELSE IF block.type = "tool_use"
    THEN [turn EXCEPT !.tool_uses = Append(@, ToolEntry(block, trm, tri))]
    ELSE IF block.type = "image" /\ block.source.type = "base64"
    THEN [turn EXCEPT !.images = Append(@, DataUri(block.source))]
    ELSE turn

AddBlockSkipUnmatched(turn, block, trm, tri) ==
    IF ~block.isdict THEN turn
    ELSE IF block.type = "text"
    THEN [turn EXCEPT !.texts = @ \o KeptTexts(turn.role, block.text)]
    ELSE IF block.type = "tool_use" /\ block.id \in DOMAIN trm
    THEN [turn EXCEPT !.tool_uses = Append(@, ToolEntry(block, trm, tri))]
    ELSE IF block.type = "image" /\ block.source.type = "base64"
    THEN [turn EXCEPT !.images = Append(@, DataUri(block.source))]
    ELSE turn

\* The body of "for block in content" of the second pass.
AddBlock(turn, block, trm, tri) ==
    IF ~block.isdict THEN turn
    ELSE IF block.type = "text"
    THEN [turn EXCEPT !.texts = @ \o KeptTexts(turn.role, block.text)]
    ELSE IF block.type = "tool_use"
    THEN [turn EXCEPT !.tool_uses = Append(@, ToolEntry(block, trm, tri))]
    ELSE IF block.type = "image" /\ block.source.type = "base64"
    THEN [turn EXCEPT !.images = Append(@, DataUri(block.source))]
    ELSE turn

RECURSIVE AddBlocks(_, _, _, _)
AddBlocks(turn, blocks, trm, tri) ==
    IF blocks = <<>> THEN turn
    ELSE AddBlock(AddBlocks(turn, SubSeq(blocks, 1, Len(blocks) - 1), trm, tri),
                  blocks[Len(blocks)], trm, tri)

EmptyTurn(d) ==
    [role |-> RoleOf(d), timestamp |-> d.timestamp, texts |-> <<>>,
     tool_uses |-> <<>>, images |-> <<>>]

\* The turn built from record d.
BuildTurn(d, trm, tri) == AddBlocks(EmptyTurn(d), ContentBlocks(d), trm, tri)

\* Mutant of IsTurnRecord: records of every type are taken.
IsTurnRecordAny(d) == TRUE

\* if d['type'] not in ('user', 'assistant'): continue
IsTurnRecord(d) == d.type \in {"user", "assistant"}

\* Mutant of Visible: an assistant turn needs a text or an image.
VisibleNeedsText(turn) ==
    /\ turn.role \in {"user", "assistant"}
    /\ (turn.texts # <<>> \/ turn.images # <<>>)

\* "Only include turns with visible content"
Visible(turn) ==
    \/ /\ turn.role = "user"
       /\ (turn.texts # <<>> \/ turn.images # <<>>)
    \/ /\ turn.role = "assistant"
       /\ (turn.texts # <<>> \/ turn.tool_uses # <<>> \/ turn.images # <<>>)

\* The body of "for d in all_records" of the second pass.
AppendTurn(msgs, d, trm, tri) ==
    IF IsTurnRecord(d) /\ Visible(BuildTurn(d, trm, tri))
    THEN Append(msgs, BuildTurn(d, trm, tri))
    ELSE msgs


-----------------------------------------------------------------------------
(* parse_messages as a function of the file *)

\* Mutant of HasType: d['type'] of any value gives something.
HasTypeAny(d) == TRUE

\* d['type'] gives a value: d is an object with the key "type"
HasType(d) == d.hastype

\* Mutant of FirstPassEnd: the first loop stops one record early.
FirstPassEndShort(records) == Len(records) - 1

\* The first loop runs over the whole of all_records before the second
\* loop starts: the index of the last record it reads.
FirstPassEnd(records) == Len(records)

RECURSIVE CollectRecords(_, _)
CollectRecords(maps, records) ==
    IF records = <<>> THEN maps
    ELSE CollectRecord(
             CollectRecords(maps, SubSeq(records, 1, Len(records) - 1)),
             records[Len(records)])

RECURSIVE AppendTurns(_, _, _)
AppendTurns(records, trm, tri) ==
    IF records = <<>> THEN <<>>
    ELSE AppendTurn(AppendTurns(SubSeq(records, 1, Len(records) - 1), trm, tri),
                    records[Len(records)], trm, tri)

NoMaps == [text |-> EmptyMap, images |-> EmptyMap]

\* d['type'] raises for a record without the key: nothing is returned.
ParseMessages(lines) ==
    LET records == LoadRecords(lines)
        maps == CollectRecords(NoMaps,
                               SubSeq(records, 1, FirstPassEnd(records)))
    IN  IF \E n \in 1..Len(records) : ~HasType(records[n])
        THEN [status |-> "raised", messages |-> <<>>]
        ELSE [status |-> "ok",
              messages |-> AppendTurns(records, maps.text, maps.images)]

-----------------------------------------------------------------------------
(* parse_messages, statement by statement *)

\* for line in f: (export.py:265-270)
ReadLine ==
    /\ pc = "load"
    /\ idx <= Len(file)
    /\ all_records' = LoadLine(all_records, file[idx])
    /\ idx' = idx + 1
    /\ UNCHANGED <<file, pc, tool_results_map, tool_result_images, messages,
                   origin>>
    /\ UNCHANGED <<manifestVars, mainVars, mdVars, toolVars>>
    /\ UNCHANGED <<embedVars, searchVars, runVars>>

EndOfFile ==
    /\ pc = "load"
    /\ idx > Len(file)
    /\ pc' = "collect"
    /\ idx' = 1
    /\ UNCHANGED <<file, all_records, tool_results_map, tool_result_images,
                   messages, origin>>
    /\ UNCHANGED <<manifestVars, mainVars, mdVars, toolVars>>
    /\ UNCHANGED <<embedVars, searchVars, runVars>>

\* for d in all_records: (export.py:273-302)
CollectStep ==
    /\ pc = "collect"
    /\ idx <= FirstPassEnd(all_records)
    /\ IF HasType(all_records[idx])
       THEN LET maps == CollectRecord([text |-> tool_results_map,
                                       images |-> tool_result_images],
                                      all_records[idx])
            IN  /\ tool_results_map' = maps.text
                /\ tool_result_images' = maps.images
                /\ idx' = idx + 1
                /\ pc' = pc
       ELSE /\ pc' = "raised"
            /\ UNCHANGED <<idx, tool_results_map, tool_result_images>>
    /\ UNCHANGED <<file, all_records, messages, origin>>
    /\ UNCHANGED <<manifestVars, mainVars, mdVars, toolVars>>
    /\ UNCHANGED <<embedVars, searchVars, runVars>>

EndCollect ==
    /\ pc = "collect"
    /\ idx > FirstPassEnd(all_records)
    /\ pc' = "build"
    /\ idx' = 1
    /\ UNCHANGED <<file, all_records, tool_results_map, tool_result_images,
                   messages, origin>>
    /\ UNCHANGED <<manifestVars, mainVars, mdVars, toolVars>>
    /\ UNCHANGED <<embedVars, searchVars, runVars>>

\* for d in all_records: (export.py:305-365)
BuildStep ==
    /\ pc = "build"
    /\ idx <= Len(all_records)
    /\ IF HasType(all_records[idx])
       THEN /\ messages' = AppendTurn(messages, all_records[idx],
                                      tool_results_map, tool_result_images)
            /\ origin' = IF messages' # messages
                         THEN Append(origin, idx)
                         ELSE origin
            /\ idx' = idx + 1
            /\ pc' = pc
       ELSE /\ pc' = "raised"
            /\ UNCHANGED <<idx, messages, origin>>
    /\ UNCHANGED <<file, all_records, tool_results_map, tool_result_images>>
    /\ UNCHANGED <<manifestVars, mainVars, mdVars, toolVars>>
    /\ UNCHANGED <<embedVars, searchVars, runVars>>

\* return messages (export.py:367)
Return ==
    /\ pc = "build"
    /\ idx > Len(all_records)
    /\ pc' = "done"
    /\ UNCHANGED <<file, idx, all_records, tool_results_map,
                   tool_result_images, messages, origin>>
    /\ UNCHANGED <<manifestVars, mainVars, mdVars, toolVars>>
    /\ UNCHANGED <<embedVars, searchVars, runVars>>

Next ==
    \/ ReadLine
    \/ EndOfFile
    \/ CollectStep
    \/ EndCollect
    \/ BuildStep
    \/ Return

\* The state at the entry of parse_messages(file).
Entry(lines) ==
    /\ file = lines
    /\ pc = "load"
    /\ idx = 1
    /\ all_records = <<>>
    /\ tool_results_map = EmptyMap
    /\ tool_result_images = EmptyMap
    /\ messages = <<>>
    /\ origin = <<>>

\* No manifest has been written.
NoManifest ==
    /\ manifest_file = [state |-> "absent", entries |-> <<>>]
    /\ last_export = EmptyMap
    /\ export_count = [path \in {} |-> 0]
    /\ last_written = <<>>

\* The main block is not running.
MainIdle ==
    /\ args = [landing |-> FALSE, all |-> FALSE, format |-> "html",
               branch |-> "", jsonl |-> <<>>]
    /\ env = [sessions |-> <<>>, newest |-> <<>>,
              git |-> [result |-> "ok", out |-> "main"]]
    /\ main_pc = "idle"
    /\ session_idx = 1
    /\ jsonl_path = <<>>
    /\ out_files = EmptyMap
    /\ landing_page = [state |-> "absent", entries |-> <<>>]
    /\ reported = <<>>
    /\ processed = <<>>
    /\ dirs_made = FALSE

\* md_to_html is not running.
MdIdle ==
    /\ md_in = <<>>
    /\ md_out = <<>>
    /\ md_stage = 0

\* No tool entry is being formatted.
ToolIdle ==
    /\ tool = [name |-> "", input |-> <<>>, result |-> <<>>]
    /\ shown = EmptyMap
    /\ tool_pc = "idle"

\* No page is being generated.
EmbedIdle ==
    /\ page_turn = [role |-> "", texts |-> <<>>, tool_uses |-> <<>>]
    /\ raw_text_js = <<>>
    /\ embed_pc = "idle"

\* No page is open.
SearchIdle ==
    /\ dom = <<>>
    /\ loaded = <<>>
    /\ panel = [open |-> FALSE, title |-> 0, info |-> <<>>, hitCount |-> <<>>,
                list |-> <<>>, selected |-> 0]
    /\ currentHighlights = 0
    /\ search_pc = "idle"

\* No update_manifest is under way.
RunsIdle ==
    /\ runs = <<>>
    /\ manifest_chars = 0
    /\ wrote = <<>>

-----------------------------------------------------------------------------
(* The logs explored *)

\* Lines per log.
MaxLines == 3

PngOne == Source("base64", "image/png", "i1")
JpegTwo == Source("base64", "", "i2")
UrlImage == Source("url", "", "i3")

\* a record of another type whose message has a role and a text
SystemRecord == Record("system", "user", StrContent(<<"a">>), "t0")

\* an assistant record, role defaulted from type, that only invokes k1
UseOne == Record("assistant", "", ListContent(<<ToolUse("k1", "Bash")>>), "t1")

\* an assistant record with a text, an invocation of k2 and one without id
UseTwo ==
    Record("assistant", "assistant",
           ListContent(<<TextBlock(<<"a", " ">>), ToolUse("k2", ""),
                         ToolUse("", "Read")>>), "t2")

\* a user record that only carries the result of k1, content a string
ResultStr ==
    Record("user", "user",
           ListContent(<<ToolResult("k1", StrContent(<<" ", "a", "\n">>))>>),
           "t3")

\* a user record that only carries the result of k1, content a list
ResultList ==
    Record("user", "user",
           ListContent(<<ToolResult("k1", ListContent(<<
               SubBlock("text", <<"b", " ">>, NoSource),
               SubBlock("image", <<>>, PngOne),
               NotADict,
               SubBlock("text", <<" ", "c">>, NoSource),
               SubBlock("image", <<>>, UrlImage)>>))>>),
           "t4")

\* a user record with results for k1 (blank text, no image), for no id, and
\* for k2 (an image, no text)
ResultMany ==
    Record("user", "",
           ListContent(<<ToolResult("k1", ListContent(<<
                             SubBlock("text", <<" ">>, NoSource)>>)),
                         ToolResult("", StrContent(<<"z">>)),
                         ToolResult("k2", ListContent(<<
                             SubBlock("image", <<>>, JpegTwo)>>))>>),
           "t5")

\* a user record whose content is one string
UserPlain == Record("user", "user", StrContent(<<"a", " ">>), "t6")

\* a user record with nothing to show
UserBlank ==
    Record("user", "user",
           ListContent(<<TextBlock(<<" ">>), NonDictBlock, OtherBlock,
                         ImageBlock(UrlImage)>>), "t7")

\* a user record with an image only
UserImage == Record("user", "user", ListContent(<<ImageBlock(PngOne)>>), "t8")

\* a user-type record whose message declares another role
UserAsSystem == Record("user", "system", StrContent(<<"a">>), "t9")

\* a user-type record whose message declares the assistant role: it carries
\* a result for k2 and invokes k2
UserAsAssistant ==
    Record("user", "assistant",
           ListContent(<<ToolResult("k2", StrContent(<<"d">>)),
                         ToolUse("k2", "Bash")>>), "t10")

\* an assistant-type record with a tool_result block
AssistantResult ==
    Record("assistant", "",
           ListContent(<<ToolResult("k1", StrContent(<<"x">>))>>), "t11")

Lines ==
    {BadLine, NoTypeLine, SystemRecord, UseOne, UseTwo, ResultStr, ResultList,
     ResultMany, UserPlain, UserBlank, UserImage, UserAsSystem,
     UserAsAssistant, AssistantResult}

RECURSIVE SeqsUpTo(_, _)
SeqsUpTo(S, n) ==
    IF n = 0 THEN {<<>>}
    ELSE LET shorter == SeqsUpTo(S, n - 1)
         IN  shorter \cup {Append(q, x) : q \in shorter, x \in S}

Logs == SeqsUpTo(Lines, MaxLines)

Init ==
    /\ NoManifest /\ MainIdle /\ MdIdle /\ ToolIdle
    /\ EmbedIdle /\ SearchIdle /\ RunsIdle
    /\ \E lines \in Logs : Entry(lines)

Spec == Init /\ [][Next]_vars

\* Logs of one record with one text block, the text made of at most
\* MaxPieces pieces: whole markers, parts of markers, a blank, a letter.
MaxPieces == 5

\* Pieces of the texts that stand beside an image or in an assistant record.
MaxSidePieces == 3

Pieces ==
    {OpenMarker, CloseMarker, <<"<">>, <<"s", ">">>, <<" ">>, <<"a">>}

RECURSIVE PieceTexts(_)
PieceTexts(n) ==
    IF n = 0 THEN {<<>>}
    ELSE LET shorter == PieceTexts(n - 1)
         IN  shorter \cup {t \o piece : t \in shorter, piece \in Pieces}

TextLogs ==
    {<<Record("user", "user", ListContent(<<TextBlock(t)>>), "t1")>> :
        t \in PieceTexts(MaxPieces)}
    \cup
    {<<Record("user", "", ListContent(<<TextBlock(t), ImageBlock(PngOne)>>),
              "t2")>> : t \in PieceTexts(MaxSidePieces)}
    \cup
    {<<Record("assistant", "assistant", ListContent(<<TextBlock(t)>>),
              "t3")>> : t \in PieceTexts(MaxSidePieces)}

InitText ==
    /\ NoManifest /\ MainIdle /\ MdIdle /\ ToolIdle
    /\ EmbedIdle /\ SearchIdle /\ RunsIdle
    /\ \E lines \in TextLogs : Entry(lines)

SpecText == InitText /\ [][Next]_vars

-----------------------------------------------------------------------------
(* update_manifest *)

\* Mutant of LoadManifest: the list of the file is never taken up.
LoadManifestAfresh(f) == <<>>

\* The list update_manifest starts from: the file's list, or the empty
\* list when the file is absent or cannot be read as JSON.
LoadManifest(f) == IF f.state = "list" THEN f.entries ELSE <<>>

\* Mutant of WithoutPath: nothing is removed.
WithoutPathKeepsAll(manifest, rel_path) == manifest

\* manifest = [e for e in manifest if e.get('path') != rel_path]
WithoutPath(manifest, rel_path) ==
    SelectSeq(manifest, LAMBDA e : e.path # rel_path)

\* Mutant of SortByExported: the list is left in the order it has.
SortByExportedNot(manifest) == manifest

\* manifest.sort(key=lambda e: e.get('exported', ''), reverse=True):
\* descending, entries of equal time stay in the order they had.
RECURSIVE SortByExported(_)
SortByExported(manifest) ==
    IF manifest = <<>> THEN <<>>
    ELSE LET e == manifest[Len(manifest)]
             sorted == SortByExported(SubSeq(manifest, 1, Len(manifest) - 1))
             ahead == SelectSeq(sorted, LAMBDA x : x.exported >= e.exported)
             behind == SelectSeq(sorted, LAMBDA x : x.exported < e.exported)
         IN  ahead \o <<e>> \o behind

\* The list update_manifest writes, from the list it read and its entry.
UpdatedManifest(manifest, entry) ==
    SortByExported(Append(WithoutPath(manifest, entry.path), entry))

\* The "exported" times are drawn from 1..MaxClock.
MaxClock == 3

\* Calls of update_manifest in one behaviour.
MaxExports == 3

ExportPaths == {"p/a.html", "p/b.html"}

ManifestEntries ==
    [path : ExportPaths, project : {"p"}, session : {"s1", "s2"},
     branch : {"main", "dev"}, turns : {1, 2}, size : {10, 20},
     exported : 1..MaxClock]

RECURSIVE SumOver(_, _)
SumOver(f, S) ==
    IF S = {} THEN 0
    ELSE LET x == CHOOSE y \in S : TRUE
         IN  f[x] + SumOver(f, S \ {x})

ExportCalls == SumOver(export_count, DOMAIN export_count)

\* One call of update_manifest, from reading the file to writing it.
UpdateManifest ==
    \E entry \in ManifestEntries :
        /\ ExportCalls < MaxExports
        /\ export_count' = Put(export_count, entry.path,
                               Get(export_count, entry.path, 0) + 1)
        /\ manifest_file' =
               [state |-> "list",
                entries |-> UpdatedManifest(LoadManifest(manifest_file), entry)]
        /\ last_export' = Put(last_export, entry.path, entry)
        /\ last_written' = <<entry>>
        /\ UNCHANGED <<parseVars, mainVars, mdVars, toolVars>>
        /\ UNCHANGED <<embedVars, searchVars, runVars>>

NextManifest == UpdateManifest

\* No log is being parsed; the manifest file is absent or unreadable.
InitManifest ==
    /\ Entry(<<>>) /\ MainIdle /\ MdIdle /\ ToolIdle
    /\ EmbedIdle /\ SearchIdle /\ RunsIdle
    /\ manifest_file \in {[state |-> "absent", entries |-> <<>>],
                          [state |-> "corrupt", entries |-> <<>>]}
    /\ last_export = EmptyMap
    /\ export_count = [path \in {} |-> 0]
    /\ last_written = <<>>

SpecManifest == InitManifest /\ [][NextManifest]_vars

-----------------------------------------------------------------------------
(* The main block: landing-page mode, batch export, single export *)

UpperCase ==
    <<"A", "B", "C", "D", "E", "F", "G", "H", "I", "J", "K", "L", "M",
      "N", "O", "P", "Q", "R", "S", "T", "U", "V", "W", "X", "Y", "Z">>

LowerCase ==
    <<"a", "b", "c", "d", "e", "f", "g", "h", "i", "j", "k", "l", "m",
      "n", "o", "p", "q", "r", "s", "t", "u", "v", "w", "x", "y", "z">>

Letters ==
    {UpperCase[n] : n \in 1..Len(UpperCase)}
        \cup {LowerCase[n] : n \in 1..Len(LowerCase)}

Digits == {"0", "1", "2", "3", "4", "5", "6", "7", "8", "9"}

\* str.lower(), one character
LowerChar(c) ==
    IF \E n \in 1..Len(UpperCase) : UpperCase[n] = c
    THEN LowerCase[CHOOSE n \in 1..Len(UpperCase) : UpperCase[n] = c]
    ELSE c

\* str.lower()
Lower(s) == [n \in 1..Len(s) |-> LowerChar(s[n])]

\* s[:n]
Take(s, n) == SubSeq(s, 1, IF Len(s) < n THEN Len(s) ELSE n)

\* m['texts'][0][:60]
SessionNameChars == 60

\* [:50] of the file name
SafeNameChars == 50

\* the characters of [<>:"/\|?*]
NameForbidden == {"<", ">", ":", "\"", "/", "\\", "|", "?", "*"}

DefaultSessionName == <<"s", "e", "s", "s", "i", "o", "n">>

\* detect_session_name: from the first user turn that has a text.
RECURSIVE DetectSessionName(_)
DetectSessionName(msgs) ==
    IF msgs = <<>> THEN DefaultSessionName
    ELSE IF msgs[1].role = "user" /\ msgs[1].texts # <<>>
    THEN LET text == Strip(Take(msgs[1].texts[1], SessionNameChars))
             name == SelectSeq(text, LAMBDA c : c \notin NameForbidden)
         IN  IF name = <<>> THEN DefaultSessionName ELSE name
    ELSE DetectSessionName(Tail(msgs))

\* Mutant of SafeName: the name is not put in lower case.
SafeNameCased(sname) ==
    LET safe(c) == IF c \in Letters \cup Digits \cup {"-"} THEN c ELSE "-"
    IN  Take([n \in 1..Len(sname) |-> safe(sname[n])], SafeNameChars)

\* re.sub(r'[^a-zA-Z0-9-]', '-', sname.lower())[:50]
SafeName(sname) ==
    LET safe(c) == IF c \in Letters \cup Digits \cup {"-"} THEN c ELSE "-"
        lowered == Lower(sname)
    IN  Take([n \in 1..Len(lowered) |-> safe(lowered[n])], SafeNameChars)

\* '.md' if fmt == 'md' else '.html'
Ext(fmt) == IF fmt = "md" THEN ".md" ELSE ".html"

\* The output path below the exports directory: project directory, file
\* name, extension.
OutPath(pname, sname, fmt) == <<pname, SafeName(sname), Ext(fmt)>>

\* Mutant of DetectBranch: a failed lookup yields what it printed.
DetectBranchNoFallback(git) == git.out

\* detect_branch: the output of git, or 'main' on any exception.
DetectBranch(git) == IF git.result = "ok" THEN git.out ELSE "main"

\* args.branch or detect_branch()
ResolveBranch(a, git) == IF a.branch # "" THEN a.branch ELSE DetectBranch(git)

\* generate_landing_page on the manifest file as it stands: skipped without
\* a file, an exception of json.load on a file that is not JSON.
LandingOutcome(mf) ==
    IF mf.state = "absent" THEN "skipped"
    ELSE IF mf.state = "corrupt" THEN "raised"
    ELSE "written"

\* Mutant of SessionOutcome: a log without visible turns is exported too.
SessionOutcomeNoSkip(s) ==
    LET parsed == ParseMessages(s.log)
    IN  IF parsed.status = "raised" THEN "parse_raised"
        ELSE IF s.render = "raises" THEN "render_raised"
        ELSE "exported"

\* What one session of the batch comes to inside the try block.
SessionOutcome(s) ==
    LET parsed == ParseMessages(s.log)
    IN  IF parsed.status = "raised" THEN "parse_raised"
        ELSE IF parsed.messages = <<>> THEN "no_turns"
        ELSE IF s.render = "raises" THEN "render_raised"
        ELSE "exported"

\* Mutant of CaughtInLoop: only a failure of parse_messages is caught.
CaughtInLoopParseOnly(outcome) == outcome = "parse_raised"

\* except Exception as e: the failures the handler of the loop catches.
CaughtInLoop(outcome) == outcome \in {"parse_raised", "render_raised"}

\* Mutant of NoneFound: the test never fires.
NoneFoundNever(found) == FALSE

\* if not sessions / if not jsonl_path
NoneFound(found) == found = <<>>

\* Sessions per batch.
MaxSessions == 2

\* a user record whose text needs sanitising for a file name
UserOther == Record("user", "user", StrContent(<<"B", "?">>), "t12")

\* The logs a run may find, each with what the renderer does on its turns
\* (it writes the document, or raises, as on a disk that cannot be
\* written) and the project its directory names.
Sessions ==
    {[log |-> <<UserPlain>>, render |-> "ok", project |-> "p"],
     [log |-> <<UserOther, UseOne>>, render |-> "ok", project |-> "p"],
     [log |-> <<BadLine>>, render |-> "ok", project |-> "p"],
     [log |-> <<UserPlain, NoTypeLine>>, render |-> "ok", project |-> "p"],
     [log |-> <<UserPlain>>, render |-> "raises", project |-> "p"]}

\* What the lookup of the branch comes to: git prints a name, git is not
\* installed, git exits non-zero (not a repository).
GitOutcomes ==
    {[result |-> "ok", out |-> "feat"],
     [result |-> "FileNotFoundError", out |-> ""],
     [result |-> "CalledProcessError", out |-> ""]}

\* os.path.getsize(out)
Sizes == {10, 20}

\* An entry left in the manifest by an earlier run.
EarlierEntry ==
    [path |-> <<"p", <<"a">>, ".html">>, project |-> "p", session |-> <<"a">>,
     branch |-> "old", turns |-> 1, size |-> 10, exported |-> 1]

\* The call update_manifest(...) with the entry it builds.
ManifestCall(entry) ==
    /\ export_count' = Put(export_count, entry.path,
                           Get(export_count, entry.path, 0) + 1)
    /\ manifest_file' =
           [state |-> "list",
            entries |-> UpdatedManifest(LoadManifest(manifest_file), entry)]
    /\ last_export' = Put(last_export, entry.path, entry)
    /\ last_written' = <<entry>>

Fatal == [kind |-> "fatal", at |-> 0]

\* if args.landing: (export.py:1506-1511)
LandingOnly ==
    /\ main_pc = "start"
    /\ args.landing
    /\ dirs_made' = TRUE
    /\ landing_page' = IF LandingOutcome(manifest_file) = "written"
                       THEN [state |-> "written",
                             entries |-> manifest_file.entries]
                       ELSE landing_page
    /\ main_pc' = IF LandingOutcome(manifest_file) = "raised"
                  THEN "raised" ELSE "exit0"
    /\ UNCHANGED <<args, env, session_idx, jsonl_path, out_files, reported,
                   processed>>
    /\ UNCHANGED <<parseVars, manifestVars, mdVars, toolVars>>
    /\ UNCHANGED <<embedVars, searchVars, runVars>>

\* sessions = find_project_sessions() and the test on it
\* (export.py:1518-1524)
FindSessions ==
    /\ main_pc = "start"
    /\ ~args.landing
    /\ args.all
    /\ IF NoneFound(env.sessions)
       THEN /\ reported' = Append(reported, Fatal)
            /\ main_pc' = "exit1"
            /\ UNCHANGED dirs_made
       ELSE /\ dirs_made' = TRUE
            /\ main_pc' = "batch"
            /\ UNCHANGED reported
    /\ UNCHANGED <<args, env, session_idx, jsonl_path, out_files,
                   landing_page, processed>>
    /\ UNCHANGED <<parseVars, manifestVars, mdVars, toolVars>>
    /\ UNCHANGED <<embedVars, searchVars, runVars>>

\* One turn of "for jsonl_path in sessions", try block and handler
\* (export.py:1525-1552)
ExportSession ==
    /\ main_pc = "batch"
    /\ session_idx <= Len(env.sessions)
    /\ LET s == env.sessions[session_idx]
           outcome == SessionOutcome(s)
           msgs == ParseMessages(s.log).messages
           sname == DetectSessionName(msgs)
           br == ResolveBranch(args, env.git)
           opath == OutPath(s.project, sname, args.format)
       IN  /\ processed' = Append(processed, session_idx)
           /\ IF outcome = "exported"
              THEN \E size \in Sizes, now \in 1..MaxClock :
                      /\ out_files' =
                             Put(out_files, opath,
                                 [session |-> sname, branch |-> br,
                                  turns |-> Len(msgs), size |-> size])
                      /\ IF args.format = "html"
                         THEN ManifestCall(
                                  [path |-> opath, project |-> s.project,
                                   session |-> sname, branch |-> br,
                                   turns |-> Len(msgs), size |-> size,
                                   exported |-> now])
                         ELSE UNCHANGED manifestVars
                      /\ session_idx' = session_idx + 1
                      /\ UNCHANGED <<reported, main_pc>>
              ELSE /\ UNCHANGED <<out_files, manifestVars>>
                   /\ IF outcome = "no_turns"
                      THEN /\ session_idx' = session_idx + 1
                           /\ UNCHANGED <<reported, main_pc>>
                      ELSE IF CaughtInLoop(outcome)
                      THEN /\ reported' =
                                  Append(reported,
                                         [kind |-> "session",
                                          at |-> session_idx])
                           /\ session_idx' = session_idx + 1
                           /\ UNCHANGED main_pc
                      ELSE /\ main_pc' = "raised"
                           /\ UNCHANGED <<reported, session_idx>>
    /\ UNCHANGED <<args, env, jsonl_path, landing_page, dirs_made>>
    /\ UNCHANGED <<parseVars, mdVars, toolVars>>
    /\ UNCHANGED <<embedVars, searchVars, runVars>>

\* After the loop (export.py:1553-1557)
EndBatch ==
    /\ main_pc = "batch"
    /\ session_idx > Len(env.sessions)
    /\ IF args.format = "html"
       THEN /\ landing_page' = IF LandingOutcome(manifest_file) = "written"
                               THEN [state |-> "written",
                                     entries |-> manifest_file.entries]
                               ELSE landing_page
            /\ main_pc' = IF LandingOutcome(manifest_file) = "raised"
                          THEN "raised" ELSE "exit0"
       ELSE /\ main_pc' = "exit0"
            /\ UNCHANGED landing_page
    /\ UNCHANGED <<args, env, session_idx, jsonl_path, out_files, reported,
                   processed, dirs_made>>
    /\ UNCHANGED <<parseVars, manifestVars, mdVars, toolVars>>
    /\ UNCHANGED <<embedVars, searchVars, runVars>>

\* "Resolve JSONL path" (export.py:1560-1566)
ResolveInput ==
    /\ main_pc = "start"
    /\ ~args.landing
    /\ ~args.all
    /\ LET found == IF args.jsonl # <<>> THEN args.jsonl ELSE env.newest
       IN  IF NoneFound(found)
           THEN /\ reported' = Append(reported, Fatal)
                /\ main_pc' = "exit1"
                /\ UNCHANGED jsonl_path
           ELSE /\ jsonl_path' = found
                /\ main_pc' = "single"
                /\ UNCHANGED reported
    /\ UNCHANGED <<args, env, session_idx, out_files, landing_page,
                   processed, dirs_made>>
    /\ UNCHANGED <<parseVars, manifestVars, mdVars, toolVars>>
    /\ UNCHANGED <<embedVars, searchVars, runVars>>

\* The single export, from parse_messages to the landing page; nothing
\* catches an exception here (export.py:1569-1610)
ExportSingle ==
    /\ main_pc = "single"
    /\ LET s == jsonl_path[1]
           parsed == ParseMessages(s.log)
           msgs == parsed.messages
           sname == DetectSessionName(msgs)
           br == ResolveBranch(args, env.git)
           opath == OutPath(s.project, sname, args.format)
       IN  IF parsed.status = "raised"
           THEN /\ main_pc' = "raised"
                /\ UNCHANGED <<out_files, landing_page, dirs_made,
                               manifestVars>>
           ELSE IF s.render = "raises"
           THEN /\ main_pc' = "raised"
                /\ dirs_made' = TRUE
                /\ UNCHANGED <<out_files, landing_page, manifestVars>>
           ELSE \E size \in Sizes, now \in 1..MaxClock :
                   /\ dirs_made' = TRUE
                   /\ out_files' =
                          Put(out_files, opath,
                              [session |-> sname, branch |-> br,
                               turns |-> Len(msgs), size |-> size])
                   /\ IF args.format = "html"
                      THEN /\ ManifestCall(
                                  [path |-> opath, project |-> s.project,
                                   session |-> sname, branch |-> br,
                                   turns |-> Len(msgs), size |-> size,
                                   exported |-> now])
                           /\ landing_page' =
                                  [state |-> "written",
                                   entries |-> manifest_file'.entries]
                      ELSE UNCHANGED <<manifestVars, landing_page>>
                   /\ main_pc' = "exit0"
    /\ UNCHANGED <<args, env, session_idx, jsonl_path, reported, processed>>
    /\ UNCHANGED <<parseVars, mdVars, toolVars>>
    /\ UNCHANGED <<embedVars, searchVars, runVars>>

NextMain ==
    \/ LandingOnly
    \/ FindSessions
    \/ ExportSession
    \/ EndBatch
    \/ ResolveInput
    \/ ExportSingle

\* The start of a run.  The inputs a mode does not read are left empty;
\* the manifest is absent, not JSON, or the list of an earlier run.
InitMain ==
    /\ Entry(<<>>) /\ MdIdle /\ ToolIdle
    /\ EmbedIdle /\ SearchIdle /\ RunsIdle
    /\ manifest_file \in {[state |-> "absent", entries |-> <<>>],
                          [state |-> "corrupt", entries |-> <<>>],
                          [state |-> "list", entries |-> <<EarlierEntry>>]}
    /\ last_export = EmptyMap
    /\ export_count = [path \in {} |-> 0]
    /\ last_written = <<>>
    /\ args \in [landing : BOOLEAN, all : BOOLEAN, format : {"html", "md"},
                 branch : {"", "dev"},
                 jsonl : {<<>>} \cup {<<s>> : s \in Sessions}]
    /\ env \in [sessions : SeqsUpTo(Sessions, MaxSessions),
                newest : {<<>>} \cup {<<s>> : s \in Sessions},
                git : GitOutcomes]
    /\ args.landing => ~args.all /\ args.branch = "" /\ args.format = "html"
    /\ args.landing \/ args.all => args.jsonl = <<>> /\ env.newest = <<>>
    /\ args.landing \/ ~args.all => env.sessions = <<>>
    /\ args.landing \/ args.branch # "" => env.git.result = "ok"
    /\ main_pc = "start"
    /\ session_idx = 1
    /\ jsonl_path = <<>>
    /\ out_files = EmptyMap
    /\ landing_page = [state |-> "absent", entries |-> <<>>]
    /\ reported = <<>>
    /\ processed = <<>>
    /\ dirs_made = FALSE

SpecMain == InitMain /\ [][NextMain]_vars

-----------------------------------------------------------------------------
(* md_to_html *)

\* A text under md_to_html is a sequence whose elements are the characters
\* that come from the input (one-character strings) and the pieces of
\* markup the rules emit (each one element).

PreOpen == "<pre class=\"code-block\"><code>"
PreClose == "</code></pre>"
CodeOpen == "<code class=\"inline-code\">"
CodeClose == "</code>"
TableOpen == "<table class=\"md-table\">"
AOpen == "<a href=\""
AMid == "\" target=\"_blank\">"

\* Everything the rules emit.
Markup ==
    {PreOpen, PreClose, CodeOpen, CodeClose, "<strong>", "</strong>",
     "<h1>", "</h1>", "<h2>", "</h2>", "<h3>", "</h3>", "<h4>", "</h4>",
     TableOpen, "</table>", "<tr>", "</tr>", "<th>", "</th>", "<td>", "</td>",
     "<li>", "</li>", "<ul>", "</ul>", AOpen, AMid, "</a>",
     "<p>", "</p>", "<hr>"}

\* the least element of a non-empty set of numbers
Least(S) == CHOOSE m \in S : \A n \in S : m <= n

\* Mutant of EscapeChar: the quote characters are left as they are.
EscapeCharNoQuotes(c) ==
    IF c = "&" THEN <<"&", "a", "m", "p", ";">>
    ELSE IF c = "<" THEN <<"&", "l", "t", ";">>
    ELSE IF c = ">" THEN <<"&", "g", "t", ";">>
    ELSE <<c>>

\* html.escape, one character (quote=True)
EscapeChar(c) ==
    IF c = "&" THEN <<"&", "a", "m", "p", ";">>
    ELSE IF c = "<" THEN <<"&", "l", "t", ";">>
    ELSE IF c = ">" THEN <<"&", "g", "t", ";">>
    ELSE IF c = "\"" THEN <<"&", "q", "u", "o", "t", ";">>
    ELSE IF c = "'" THEN <<"&", "#", "x", "2", "7", ";">>
    ELSE <<c>>

\* text = html.escape(text)
RECURSIVE Escape(_)
Escape(s) ==
    IF s = <<>> THEN <<>> ELSE EscapeChar(Head(s)) \o Escape(Tail(s))

\* The backtick character (a TLA+ string cannot hold it).
Backtick == "BACKTICK"

Fence == <<Backtick, Backtick, Backtick>>

\* \w
WordChars == Letters \cup Digits \cup {"_"}

\* the index after the longest run of \w that starts at p
RECURSIVE WordEnd(_, _)
WordEnd(s, p) ==
    IF p <= Len(s) /\ s[p] \in WordChars THEN WordEnd(s, p + 1) ELSE p

\* The code block substitution (export.py:126): a fence of three
\* backticks, (\w*), a newline, (.*?) with re.DOTALL, a fence.
RECURSIVE CodeBlocksFrom(_, _)
CodeBlocksFrom(s, p) ==
    IF p > Len(s) THEN <<>>
    ELSE LET nl == WordEnd(s, p + 3)
             closes == {q \in (nl + 1)..Len(s) : StartsAt(s, q, Fence)}
         IN  IF /\ StartsAt(s, p, Fence)
                /\ nl <= Len(s)
                /\ s[nl] = "\n"
                /\ closes # {}
             THEN <<PreOpen>> \o SubSeq(s, nl + 1, Least(closes) - 1)
                      \o <<PreClose>> \o CodeBlocksFrom(s, Least(closes) + 3)
             ELSE <<s[p]>> \o CodeBlocksFrom(s, p + 1)

CodeBlocks(s) == CodeBlocksFrom(s, 1)

\* The inline code substitution (export.py:127): a backtick, one or more
\* characters other than a backtick, a backtick.
RECURSIVE InlineCodeFrom(_, _)
InlineCodeFrom(s, p) ==
    IF p > Len(s) THEN <<>>
    ELSE LET ticks == {q \in (p + 1)..Len(s) : s[q] = Backtick}
         IN  IF s[p] = Backtick /\ ticks # {} /\ Least(ticks) >= p + 2
             THEN <<CodeOpen>> \o SubSeq(s, p + 1, Least(ticks) - 1)
                      \o <<CodeClose>> \o InlineCodeFrom(s, Least(ticks) + 1)
             ELSE <<s[p]>> \o InlineCodeFrom(s, p + 1)

InlineCode(s) == InlineCodeFrom(s, 1)

Stars == <<"*", "*">>

\* re.sub(r'\*\*(.+?)\*\*', r'<strong>\1</strong>', text)
RECURSIVE BoldFrom(_, _)
BoldFrom(s, p) ==
    IF p > Len(s) THEN <<>>
    ELSE LET closes == {q \in (p + 3)..Len(s) :
                           /\ StartsAt(s, q, Stars)
                           /\ \A n \in (p + 2)..(q - 1) : s[n] # "\n"}
         IN  IF StartsAt(s, p, Stars) /\ closes # {}
             THEN <<"<strong>">> \o SubSeq(s, p + 2, Least(closes) - 1)
                      \o <<"</strong>">> \o BoldFrom(s, Least(closes) + 2)
             ELSE <<s[p]>> \o BoldFrom(s, p + 1)

Bold(s) == BoldFrom(s, 1)

\* s.split(c)
RECURSIVE SplitAt(_, _)
SplitAt(s, c) ==
    LET breaks == {q \in 1..Len(s) : s[q] = c}
    IN  IF breaks = {} THEN <<s>>
        ELSE <<SubSeq(s, 1, Least(breaks) - 1)>>
                 \o SplitAt(SubSeq(s, Least(breaks) + 1, Len(s)), c)

\* text.split('\n')
SplitLines(s) == SplitAt(s, "\n")

\* '\n'.join(lines)
RECURSIVE JoinWithNewlines(_)
JoinWithNewlines(lines) ==
    IF Len(lines) = 0 THEN <<>>
    ELSE IF Len(lines) = 1 THEN lines[1]
    ELSE lines[1] \o <<"\n">> \o JoinWithNewlines(Tail(lines))

\* A substitution whose pattern is anchored with ^ and $ under
\* re.MULTILINE and cannot cross a line end: line by line.
EachLine(s, rule(_)) ==
    LET lines == SplitLines(s)
    IN  JoinWithNewlines([n \in 1..Len(lines) |-> rule(lines[n])])

\* ^prefix(.+)$ -> open \1 close, on one line
Prefixed(line, prefix, open, close) ==
    IF StartsAt(line, 1, prefix) /\ Len(line) > Len(prefix)
    THEN <<open>> \o SubSeq(line, Len(prefix) + 1, Len(line)) \o <<close>>
    ELSE line

\* the four heading substitutions, #### first (export.py:129-132)
HeadingLine(line) ==
    Prefixed(
        Prefixed(
            Prefixed(
                Prefixed(line, <<"#", "#", "#", "#", " ">>, "<h4>", "</h4>"),
                <<"#", "#", "#", " ">>, "<h3>", "</h3>"),
            <<"#", "#", " ">>, "<h2>", "</h2>"),
        <<"#", " ">>, "<h1>", "</h1>")

Headings(s) == EachLine(s, HeadingLine)

\* line.strip() is Strip; the test of export.py:139
IsRow(line) ==
    LET stripped == Strip(line)
    IN  /\ stripped # <<>>
        /\ stripped[1] = "|"
        /\ stripped[Len(stripped)] = "|"

\* [c.strip() for c in stripped.split('|')[1:-1]]
Cells(line) ==
    LET parts == SplitAt(Strip(line), "|")
    IN  [n \in 1..(Len(parts) - 2) |-> Strip(parts[n + 1])]

\* all(re.match(r'^[-:]+$', c) for c in cells)
IsSeparator(cells) ==
    \A n \in 1..Len(cells) :
        /\ cells[n] # <<>>
        /\ \A m \in 1..Len(cells[n]) : cells[n][m] \in {"-", ":"}

RECURSIVE CellsMarkup(_, _, _)
CellsMarkup(cells, open, close) ==
    IF cells = <<>> THEN <<>>
    ELSE <<open>> \o Head(cells) \o <<close>>
             \o CellsMarkup(Tail(cells), open, close)

\* '<tr>' + ''.join(f'<th>{c}</th>' for c in cells) + '</tr>'
RowMarkup(cells, open, close) ==
    <<"<tr>">> \o CellsMarkup(cells, open, close) \o <<"</tr>">>

\* for line in lines: (export.py:137-155), the lines appended to result
RECURSIVE TableLines(_, _)
TableLines(lines, in_table) ==
    IF lines = <<>>
    THEN IF in_table THEN <<(<<"</table>">>)>> ELSE <<>>
    ELSE LET line == Head(lines)
         IN  IF IsRow(line)
             THEN IF IsSeparator(Cells(line))
                  THEN TableLines(Tail(lines), in_table)
                  ELSE IF ~in_table
                  THEN <<(<<TableOpen>>),
                         RowMarkup(Cells(line), "<th>", "</th>")>>
                           \o TableLines(Tail(lines), TRUE)
                  ELSE <<RowMarkup(Cells(line), "<td>", "</td>")>>
                           \o TableLines(Tail(lines), TRUE)
             ELSE (IF in_table THEN <<(<<"</table>">>)>> ELSE <<>>)
                      \o <<line>> \o TableLines(Tail(lines), FALSE)

\* export.py:134-156
Tables(s) == JoinWithNewlines(TableLines(SplitLines(s), FALSE))

\* re.sub(r'^- (.+)$', r'<li>\1</li>', text, flags=re.MULTILINE)
ListLine(line) == Prefixed(line, <<"-", " ">>, "<li>", "</li>")

ListItems(s) == EachLine(s, ListLine)

\* the index after one match of <li>.*?</li>\n? at p, or 0
ItemEnd(s, p) ==
    LET closes == {q \in (p + 1)..Len(s) :
                      /\ s[q] = "</li>"
                      /\ \A n \in (p + 1)..(q - 1) : s[n] # "\n"}
    IN  IF p <= Len(s) /\ s[p] = "<li>" /\ closes # {}
        THEN IF Least(closes) < Len(s) /\ s[Least(closes) + 1] = "\n"
             THEN Least(closes) + 2
             ELSE Least(closes) + 1
        ELSE 0

RECURSIVE ItemsEnd(_, _)
ItemsEnd(s, p) == IF ItemEnd(s, p) = 0 THEN p ELSE ItemsEnd(s, ItemEnd(s, p))

\* re.sub(r'(<li>.*?</li>\n?)+', lambda m: '<ul>' + m.group(0) + '</ul>', text)
RECURSIVE WrapListsFrom(_, _)
WrapListsFrom(s, p) ==
    IF p > Len(s) THEN <<>>
    ELSE IF ItemEnd(s, p) # 0
    THEN <<"<ul>">> \o SubSeq(s, p, ItemsEnd(s, p) - 1) \o <<"</ul>">>
             \o WrapListsFrom(s, ItemsEnd(s, p))
    ELSE <<s[p]>> \o WrapListsFrom(s, p + 1)

WrapLists(s) == WrapListsFrom(s, 1)

\* re.sub(r'\[([^\]]+)\]\(([^)]+)\)', r'<a href="\2" target="_blank">\1</a>', text)
RECURSIVE LinksFrom(_, _)
LinksFrom(s, p) ==
    IF p > Len(s) THEN <<>>
    ELSE LET brackets == {q \in (p + 1)..Len(s) : s[q] = "]"}
             rb == IF brackets = {} THEN 0 ELSE Least(brackets)
             parens == {q \in (rb + 2)..Len(s) : s[q] = ")"}
             rp == IF parens = {} THEN 0 ELSE Least(parens)
         IN  IF /\ s[p] = "["
                /\ rb >= p + 2
                /\ rb < Len(s)
                /\ s[rb + 1] = "("
                /\ rp >= rb + 3
             THEN <<AOpen>> \o SubSeq(s, rb + 2, rp - 1) \o <<AMid>>
                      \o SubSeq(s, p + 1, rb - 1) \o <<"</a>">>
                      \o LinksFrom(s, rp + 1)
             ELSE <<s[p]>> \o LinksFrom(s, p + 1)

Links(s) == LinksFrom(s, 1)

\* the index after the run of newlines that starts at p
RECURSIVE NewlinesEnd(_, _)
NewlinesEnd(s, p) ==
    IF p <= Len(s) /\ s[p] = "\n" THEN NewlinesEnd(s, p + 1) ELSE p

\* re.sub(r'\n\n+', '</p><p>', text)
RECURSIVE BreaksFrom(_, _)
BreaksFrom(s, p) ==
    IF p > Len(s) THEN <<>>
    ELSE IF NewlinesEnd(s, p) >= p + 2
    THEN <<"</p>", "<p>">> \o BreaksFrom(s, NewlinesEnd(s, p))
    ELSE <<s[p]>> \o BreaksFrom(s, p + 1)

\* str.replace(old, new) and re.sub of a literal pattern: left to right,
\* matches do not overlap
RECURSIVE ReplaceFrom(_, _, _, _)
ReplaceFrom(s, p, old, new) ==
    IF p > Len(s) THEN <<>>
    ELSE IF StartsAt(s, p, old)
    THEN new \o ReplaceFrom(s, p + Len(old), old, new)
    ELSE <<s[p]>> \o ReplaceFrom(s, p + 1, old, new)

\* export.py:160-163
Paragraphs(s) ==
    LET wrapped == <<"<p>">> \o BreaksFrom(s, 1) \o <<"</p>">>
        filled == ReplaceFrom(wrapped, 1, <<"<p>", "</p>">>, <<>>)
    IN  ReplaceFrom(filled, 1, <<"<p>", "-", "-", "-", "</p>">>, <<"<hr>">>)

\* The rules of md_to_html, in the order of the code.
LastRule == 10

MdRule(n, s) ==
    CASE n = 1 -> Escape(s)
      [] n = 2 -> CodeBlocks(s)
      [] n = 3 -> InlineCode(s)
      [] n = 4 -> Bold(s)
      [] n = 5 -> Headings(s)
      [] n = 6 -> Tables(s)
      [] n = 7 -> ListItems(s)
      [] n = 8 -> WrapLists(s)
      [] n = 9 -> Links(s)
      [] n = 10 -> Paragraphs(s)

\* The text after the first n rules.
RECURSIVE MdUpTo(_, _)
MdUpTo(n, text) == IF n = 0 THEN text ELSE MdRule(n, MdUpTo(n - 1, text))

MdToHtml(text) == MdUpTo(LastRule, text)

\* One rule of md_to_html.
MdStep ==
    /\ md_stage < LastRule
    /\ md_stage' = md_stage + 1
    /\ md_out' = MdRule(md_stage + 1, md_out)
    /\ UNCHANGED md_in
    /\ UNCHANGED <<parseVars, manifestVars, mainVars, toolVars>>
    /\ UNCHANGED <<embedVars, searchVars, runVars>>

NextMd == MdStep

\* The texts explored are built from pieces.
RECURSIVE Concats(_, _)
Concats(S, n) ==
    IF n = 0 THEN {<<>>}
    ELSE LET shorter == Concats(S, n - 1)
         IN  shorter \cup {t \o piece : t \in shorter, piece \in S}

\* Pieces of a free text.
MaxMdPieces == 3

\* Pieces between the fences of a code block.
MaxInside == 3

\* Lines of a run of table rows.
MaxRows == 3

MdPieces ==
    {<<"<">>, <<">", "&">>, <<"\"", "'">>, <<"a">>, Stars, <<Backtick>>,
     <<"\n">>, <<"#", " ">>, <<"[", "a", "]", "(">>, <<")">>}

InsidePieces ==
    {<<"a">>, Stars, <<Backtick>>, <<"#", " ">>, <<"-", " ">>, <<"\n">>,
     <<"<">>, <<"|">>, <<"[", "a", "]", "(", "b", ")">>}

RowLines ==
    {<<"|", "a", "|">>, <<"|", "-", "|">>, <<"|", " ", "b", " ", "|", "c", "|">>,
     <<"|", ":", "-", "|", "-", "-", "|">>, <<"|">>, <<"a">>}

\* Lines of a text with lines of three hyphens.
MaxRuleLines == 4

RuleLines == {<<"-", "-", "-">>, <<"a">>, <<>>}

\* Free texts; one fenced block with a text inside; lines of table rows;
\* lines of three hyphens among text lines and empty lines.
MdTexts ==
    Concats(MdPieces, MaxMdPieces)
    \cup {Fence \o <<"\n">> \o t \o Fence : t \in Concats(InsidePieces, MaxInside)}
    \cup {JoinWithNewlines(rows) : rows \in SeqsUpTo(RowLines, MaxRows)}
    \cup {JoinWithNewlines(ls) : ls \in SeqsUpTo(RuleLines, MaxRuleLines)}

InitMd ==
    /\ Entry(<<>>) /\ NoManifest /\ MainIdle /\ ToolIdle
    /\ EmbedIdle /\ SearchIdle /\ RunsIdle
    /\ md_in \in MdTexts
    /\ md_out = md_in
    /\ md_stage = 0

SpecMd == InitMd /\ [][NextMd]_vars

-----------------------------------------------------------------------------
(* The tool formatters: tool_summary, tool_full_detail and the tool parts   *)
(* of generate_raw_text, generate_markdown and generate_html                *)

\* A tool entry is [name, input, result]: the input mapping is the list of
\* its [k, v] pairs in the order of the mapping, the values are strings.
\* What a formatter emits is a list of parts [label, key, text]: the fixed
\* text before the value, the input key shown ("" for none), the value as
\* emitted.

DigitSeq == <<"0", "1", "2", "3", "4", "5", "6", "7", "8", "9">>

\* str(n) of a natural number
RECURSIVE Decimal(_)
Decimal(n) ==
    IF n < 10 THEN <<DigitSeq[n + 1]>>
    ELSE Decimal(n \div 10) \o <<DigitSeq[(n % 10) + 1]>>

Part(label, key, text) == [label |-> label, key |-> key, text |-> text]

\* key in inp
HasKey(inp, key) == \E n \in 1..Len(inp) : inp[n].k = key

\* inp.get(key, default)
InputGet(inp, key, default) ==
    IF HasKey(inp, key)
    THEN inp[CHOOSE n \in 1..Len(inp) : inp[n].k = key].v
    ELSE default

\* inp.get(key) is true: the key is there with a non-empty value
Truthy(inp, key) == InputGet(inp, key, <<>>) # <<>>

Ellipsis == <<".", ".", ".">>

\* len(cmd) > 80
BashSummaryMax == 80

\* cmd[:77]
BashSummaryKeep == 77

\* [:60] of the url and of the description
SummaryKeep == 60

McpNames == {"mcp__srv__do"}

\* name.split('__')[1] and [2]
McpServer(name) == IF name = "mcp__srv__do" THEN "srv" ELSE "?"

McpTool(name) == IF name = "mcp__srv__do" THEN "do" ELSE "?"

\* Mutant of BashSummary: the first 80 characters and the ellipsis.
BashSummaryLong(cmd) ==
    IF Len(cmd) > BashSummaryMax
    THEN Take(cmd, BashSummaryMax) \o Ellipsis
    ELSE cmd

\* export.py:177-179
BashSummary(cmd) ==
    IF Len(cmd) > BashSummaryMax
    THEN Take(cmd, BashSummaryKeep) \o Ellipsis
    ELSE cmd

\* tool_summary: one line, one part
ToolSummary(t) ==
    LET inp == t.input
    IN  IF t.name \in {"Write", "Read", "Edit"}
        THEN Part(<<t.name, " -> ">>, "file_path",
                  InputGet(inp, "file_path", <<"?">>))
        ELSE IF t.name = "Bash"
        THEN Part(<<"$ ">>, "command",
                  BashSummary(InputGet(inp, "command", <<>>)))
        ELSE IF t.name \in {"Glob", "Grep"}
        THEN Part(<<t.name, " -> ">>, "pattern",
                  InputGet(inp, "pattern", <<"?">>))
        ELSE IF t.name = "WebSearch"
        THEN Part(<<"WebSearch: ">>, "query", InputGet(inp, "query", <<"?">>))
        ELSE IF t.name = "WebFetch"
        THEN Part(<<"WebFetch: ">>, "url",
                  Take(InputGet(inp, "url", <<"?">>), SummaryKeep))
        ELSE IF t.name = "Task"
        THEN IF HasKey(inp, "description")
             THEN Part(<<"Task: ">>, "description",
                       Take(InputGet(inp, "description", <<>>), SummaryKeep))
             ELSE Part(<<"Task: ">>, "prompt",
                       Take(InputGet(inp, "prompt", <<"?">>), SummaryKeep))
        ELSE IF t.name = "Skill"
        THEN Part(<<"Skill: ">>, "skill", InputGet(inp, "skill", <<"?">>))
        ELSE IF t.name \in McpNames
        THEN Part(<<"MCP ", McpServer(t.name), "/", McpTool(t.name)>>, "", <<>>)
        ELSE Part(<<t.name, "()">>, "", <<>>)

\* len(str(v)) > 500 for content
DetailContentMax == 500

\* len(val) > 300 for old_string and new_string, and val[:300]
DetailEditMax == 300

\* len(prompt) > 500, and prompt[:500]
DetailPromptMax == 500

\* len(val) > 300 in the mcp and the default branch, and val[:300]
DetailValueMax == 300

\* f"({len(str(v))} chars)"
CharsCount(n) == <<"(">> \o Decimal(n) \o <<" ", "c", "h", "a", "r", "s", ")">>

\* val[:limit] + '...' if len(val) > limit
CutWithEllipsis(val, limit) ==
    IF Len(val) > limit THEN Take(val, limit) \o Ellipsis ELSE val

\* The list of the parts of a list of pairs, made by one rule.
EachPair(inp, rule(_)) == [n \in 1..Len(inp) |-> rule(inp[n])]

\* The parts that are there: a part under a condition that fails is left out.
Only(cond, part) == IF cond THEN <<part>> ELSE <<>>

\* export.py:213-222
FileToolField(pair) ==
    IF pair.k = "content" /\ Len(pair.v) > DetailContentMax
    THEN Part(<<pair.k, ": ">>, pair.k, CharsCount(Len(pair.v)))
    ELSE IF pair.k \in {"old_string", "new_string"}
    THEN Part(<<pair.k, ":\n">>, pair.k, CutWithEllipsis(pair.v, DetailEditMax))
    ELSE Part(<<pair.k, ": ">>, pair.k, pair.v)

\* export.py:241-245 and 247-251
OtherToolField(pair) ==
    Part(<<pair.k, ": ">>, pair.k, CutWithEllipsis(pair.v, DetailValueMax))

\* tool_full_detail: the parts joined by newlines
ToolFullDetail(t) ==
    LET inp == t.input
    IN  <<Part(<<"Tool: ">>, "", <<t.name>>)>> \o
        (IF t.name = "Bash"
         THEN <<Part(<<"Command:\n">>, "command", InputGet(inp, "command", <<>>))>>
              \o Only(Truthy(inp, "description"),
                      Part(<<"Description: ">>, "description",
                           InputGet(inp, "description", <<>>)))
         ELSE IF t.name \in {"Read", "Write", "Edit", "Glob", "Grep"}
         THEN EachPair(inp, FileToolField)
         ELSE IF t.name = "WebSearch"
         THEN <<Part(<<"Query: ">>, "query", InputGet(inp, "query", <<>>))>>
         ELSE IF t.name = "WebFetch"
         THEN <<Part(<<"URL: ">>, "url", InputGet(inp, "url", <<>>)),
                Part(<<"Prompt: ">>, "prompt", InputGet(inp, "prompt", <<>>))>>
         ELSE IF t.name = "Task"
         THEN <<Part(<<"Description: ">>, "description",
                     InputGet(inp, "description", <<>>)),
                Part(<<"Prompt: ">>, "prompt",
                     CutWithEllipsis(InputGet(inp, "prompt", <<>>),
                                     DetailPromptMax))>>
              \o Only(Truthy(inp, "subagent_type"),
                      Part(<<"Agent: ">>, "subagent_type",
                           InputGet(inp, "subagent_type", <<>>)))
         ELSE IF t.name = "Skill"
         THEN <<Part(<<"Skill: ">>, "skill", InputGet(inp, "skill", <<>>))>>
              \o Only(Truthy(inp, "args"),
                      Part(<<"Args: ">>, "args", InputGet(inp, "args", <<>>)))
         ELSE EachPair(inp, OtherToolField))

\* len(val) > 3000, and val[:3000]
RawValueMax == 3000

\* len(result) > 5000, and result[:5000]
RawResultMax == 5000

\* f'... ({len(str(v))} chars)'
DotsCharsCount(n) == Ellipsis \o <<" ">> \o CharsCount(n)

\* f'\n... ({len} chars total)'
CharsTotal(n) ==
    <<"\n">> \o Ellipsis \o <<" ", "(">> \o Decimal(n)
        \o <<" ", "c", "h", "a", "r", "s", " ", "t", "o", "t", "a", "l", ")">>

\* export.py:403-407
RawFileToolField(pair) ==
    Part(<<pair.k, ": ">>, pair.k,
         IF Len(pair.v) > RawValueMax
         THEN Take(pair.v, RawValueMax) \o DotsCharsCount(Len(pair.v))
         ELSE pair.v)

\* export.py:423-427
RawOtherToolField(pair) ==
    Part(<<pair.k, ": ">>, pair.k, CutWithEllipsis(pair.v, RawValueMax))

\* The lines generate_raw_text appends for one tool (export.py:395-434).
RawToolText(t) ==
    LET inp == t.input
    IN  <<Part(<<"\n[Tool: ", t.name, "]">>, "", <<>>)>> \o
        (IF t.name = "Bash"
         THEN <<Part(<<"Command: ">>, "command", InputGet(inp, "command", <<>>))>>
              \o Only(Truthy(inp, "description"),
                      Part(<<"Description: ">>, "description",
                           InputGet(inp, "description", <<>>)))
         ELSE IF t.name \in {"Read", "Write", "Edit", "Glob", "Grep"}
         THEN EachPair(inp, RawFileToolField)
         ELSE IF t.name = "WebSearch"
         THEN <<Part(<<"Query: ">>, "query", InputGet(inp, "query", <<>>))>>
         ELSE IF t.name = "WebFetch"
         THEN <<Part(<<"URL: ">>, "url", InputGet(inp, "url", <<>>)),
                Part(<<"Prompt: ">>, "prompt", InputGet(inp, "prompt", <<>>))>>
         ELSE IF t.name = "Task"
         THEN <<Part(<<"Description: ">>, "description",
                     InputGet(inp, "description", <<>>)),
                Part(<<"Prompt: ">>, "prompt", InputGet(inp, "prompt", <<>>))>>
              \o Only(Truthy(inp, "subagent_type"),
                      Part(<<"Agent: ">>, "subagent_type",
                           InputGet(inp, "subagent_type", <<>>)))
         ELSE IF t.name = "Skill"
         THEN <<Part(<<"Skill: ">>, "skill", InputGet(inp, "skill", <<>>))>>
              \o Only(Truthy(inp, "args"),
                      Part(<<"Args: ">>, "args", InputGet(inp, "args", <<>>)))
         ELSE EachPair(inp, RawOtherToolField))
        \o Only(t.result # <<>>,
                Part(<<"\n[Output]", "\n">>, "result",
                     IF Len(t.result) > RawResultMax
                     THEN Take(t.result, RawResultMax)
                              \o CharsTotal(Len(t.result))
                     ELSE t.result))

\* len(content) > 500, and content[:500]
MdContentMax == 500

\* len(old) > 200, and old[:200]
MdEditMax == 200

\* len(val) > 500, and val[:500]
MdValueMax == 500

\* len(result) > 2000, and result[:2000]
MdResultMax == 2000

Truncated ==
    <<"\n">> \o Ellipsis
        \o <<" ", "(", "t", "r", "u", "n", "c", "a", "t", "e", "d", ")">>

\* export.py:508-511
MdOtherToolField(pair) ==
    Part(<<pair.k, ": ">>, pair.k, CutWithEllipsis(pair.v, MdValueMax))

\* The lines generate_markdown appends for one tool (export.py:469-527),
\* without the fences and the blank lines.
MarkdownToolText(t) ==
    LET inp == t.input
    IN  <<Part(<<"### Tool: ", t.name>>, "", <<>>)>> \o
        (IF t.name = "Bash"
         THEN <<Part(<<>>, "command", InputGet(inp, "command", <<>>))>>
         ELSE IF t.name = "Read" /\ Truthy(inp, "file_path")
         THEN <<Part(<<>>, "file_path", InputGet(inp, "file_path", <<>>))>>
         ELSE IF t.name = "Write" /\ Truthy(inp, "file_path")
         THEN <<Part(<<"Write: ">>, "file_path",
                     InputGet(inp, "file_path", <<>>)),
                Part(<<>>, "content",
                     LET content == InputGet(inp, "content", <<>>)
                     IN  IF Len(content) > MdContentMax
                         THEN Take(content, MdContentMax) \o Truncated
                         ELSE content)>>
         ELSE IF t.name = "Edit" /\ Truthy(inp, "file_path")
         THEN <<Part(<<"Edit: ">>, "file_path",
                     InputGet(inp, "file_path", <<>>)),
                Part(<<"- ">>, "old_string",
                     CutWithEllipsis(InputGet(inp, "old_string", <<>>),
                                     MdEditMax)),
                Part(<<"+ ">>, "new_string",
                     CutWithEllipsis(InputGet(inp, "new_string", <<>>),
                                     MdEditMax))>>
         ELSE IF t.name \in {"Grep", "Glob"} /\ Truthy(inp, "pattern")
         THEN <<Part(<<IF t.name = "Grep" THEN "grep \"" ELSE "glob \"">>,
                     "pattern", InputGet(inp, "pattern", <<>>)),
                Part(<<"\" ">>, "path", InputGet(inp, "path", <<".">>))>>
         ELSE IF t.name = "Skill"
         THEN <<Part(<<"/">>, "skill", InputGet(inp, "skill", <<>>))>>
              \o Only(Truthy(inp, "args"),
                      Part(<<" ">>, "args", InputGet(inp, "args", <<>>)))
         ELSE IF t.name = "WebSearch"
         THEN <<Part(<<"search: ">>, "query", InputGet(inp, "query", <<>>))>>
         ELSE IF t.name = "WebFetch"
         THEN <<Part(<<"fetch ">>, "url", InputGet(inp, "url", <<>>))>>
         ELSE IF t.name = "Task"
         THEN <<Part(<<"Task: ">>, "description",
                     InputGet(inp, "description", <<>>))>>
              \o Only(Truthy(inp, "subagent_type"),
                      Part(<<"Agent: ">>, "subagent_type",
                           InputGet(inp, "subagent_type", <<>>)))
         ELSE EachPair(inp, MdOtherToolField))
        \o Only(t.result # <<>>,
                Part(<<"<summary>Tool Result</summary>">>, "result",
                     IF Len(t.result) > MdResultMax
                     THEN Take(t.result, MdResultMax)
                              \o <<"\n">> \o DotsCharsCount(Len(t.result))
                     ELSE t.result))

\* len(display_result) > 2000, and display_result[:2000]
HtmlResultMax == 2000

ErrorWords ==
    {<<"e", "r", "r", "o", "r">>,
     <<"t", "r", "a", "c", "e", "b", "a", "c", "k">>,
     <<"e", "x", "c", "e", "p", "t", "i", "o", "n">>,
     <<"f", "a", "i", "l", "e", "d">>}

\* any(w in s.lower() for w in ['error', 'traceback', 'exception', 'failed'])
HasErrorWord(s) == \E w \in ErrorWords : Contains(Lower(s), w)

\* export.py:1018-1020
DisplayResult(result_text) ==
    IF Len(result_text) > HtmlResultMax
    THEN Take(result_text, HtmlResultMax) \o CharsTotal(Len(result_text))
    ELSE result_text

\* The output element generate_html emits for the result text of one tool
\* (export.py:1016-1022); the text is what html.escape is given.
HtmlToolOutput(t) ==
    Only(t.result # <<>>,
         Part(<<IF HasErrorWord(DisplayResult(t.result))
                THEN "tool-output-content error"
                ELSE "tool-output-content">>,
              "result", DisplayResult(t.result)))

\* html.escape(tool_summary(tool)) at export.py:1003; the text is what
\* html.escape is given.
Summarize ==
    /\ tool_pc = "summary"
    /\ shown' = Put(shown, "summary", <<ToolSummary(tool)>>)
    /\ tool_pc' = "detail"
    /\ UNCHANGED tool
    /\ UNCHANGED <<parseVars, manifestVars, mainVars, mdVars>>
    /\ UNCHANGED <<embedVars, searchVars, runVars>>

\* html.escape(tool_full_detail(tool)) at export.py:1004
Detail ==
    /\ tool_pc = "detail"
    /\ shown' = Put(shown, "detail", ToolFullDetail(tool))
    /\ tool_pc' = "output"
    /\ UNCHANGED tool
    /\ UNCHANGED <<parseVars, manifestVars, mainVars, mdVars>>
    /\ UNCHANGED <<embedVars, searchVars, runVars>>

\* export.py:1013-1025
HtmlOutput ==
    /\ tool_pc = "output"
    /\ shown' = Put(shown, "html_output", HtmlToolOutput(tool))
    /\ tool_pc' = "raw"
    /\ UNCHANGED tool
    /\ UNCHANGED <<parseVars, manifestVars, mainVars, mdVars>>
    /\ UNCHANGED <<embedVars, searchVars, runVars>>

\* generate_raw_text on the turn of the tool (export.py:394-434)
RawText ==
    /\ tool_pc = "raw"
    /\ shown' = Put(shown, "raw", RawToolText(tool))
    /\ tool_pc' = "markdown"
    /\ UNCHANGED tool
    /\ UNCHANGED <<parseVars, manifestVars, mainVars, mdVars>>
    /\ UNCHANGED <<embedVars, searchVars, runVars>>

\* generate_markdown on the turn of the tool (export.py:468-527)
Markdown ==
    /\ tool_pc = "markdown"
    /\ shown' = Put(shown, "markdown", MarkdownToolText(tool))
    /\ tool_pc' = "done"
    /\ UNCHANGED tool
    /\ UNCHANGED <<parseVars, manifestVars, mainVars, mdVars>>
    /\ UNCHANGED <<embedVars, searchVars, runVars>>

NextTool ==
    \/ Summarize
    \/ Detail
    \/ HtmlOutput
    \/ RawText
    \/ Markdown

\* How far beyond a threshold of the code the lengths explored go.
MaxOver == 1

Around(limit) == {limit + d : d \in 0..MaxOver}

\* A text of n characters without letters: 1234567890123...
Ruler(n) == [i \in 1..n |-> DigitSeq[(i % 10) + 1]]

Pair(key, value) == [k |-> key, v |-> value]

ToolEntryOf(name, inp, result) ==
    [name |-> name, input |-> inp, result |-> result]

\* The command of 200 characters of the example.
LongCommand == 200

BashTools ==
    {ToolEntryOf("Bash", <<Pair("command", Ruler(n))>>, <<>>) :
        n \in {0, 5, LongCommand} \cup Around(BashSummaryKeep)
                  \cup Around(BashSummaryMax)}
    \cup {ToolEntryOf("Bash", <<Pair("command", Ruler(2)),
                               Pair("description", Ruler(n))>>, <<>>) :
             n \in Around(DetailValueMax)}
    \cup {ToolEntryOf("Bash", <<>>, <<>>)}

WebTools ==
    {ToolEntryOf("WebFetch", <<Pair("url", Ruler(n)),
                               Pair("prompt", <<"q">>)>>, <<>>) :
        n \in {5} \cup Around(SummaryKeep)}
    \cup {ToolEntryOf("WebSearch", <<Pair("query", Ruler(n))>>, <<>>) :
             n \in Around(SummaryKeep)}

TaskTools ==
    {ToolEntryOf("Task", <<Pair("description", Ruler(n)),
                           Pair("prompt", Ruler(m)),
                           Pair("subagent_type", <<"g">>)>>, <<>>) :
        n \in Around(SummaryKeep), m \in Around(DetailPromptMax)}
    \cup {ToolEntryOf("Task", <<Pair("prompt", Ruler(m))>>, <<>>) :
             m \in Around(SummaryKeep)}
    \cup {ToolEntryOf("Skill", <<Pair("skill", <<"k">>), Pair("args", Ruler(n))>>,
                      <<>>) : n \in {0} \cup Around(DetailValueMax)}

FileTools ==
    {ToolEntryOf("Write", <<Pair("file_path", <<"f">>),
                            Pair("content", Ruler(n))>>, <<>>) :
        n \in Around(MdContentMax) \cup Around(RawValueMax)}
    \cup {ToolEntryOf("Edit", <<Pair("file_path", <<"f">>),
                               Pair("old_string", Ruler(n)),
                               Pair("new_string", Ruler(m))>>, <<>>) :
             n \in Around(MdEditMax), m \in Around(DetailEditMax)}
    \cup {ToolEntryOf("Read", <<Pair(key, Ruler(n))>>, <<>>) :
             key \in {"file_path", "path"}, n \in Around(DetailValueMax)}
    \cup {ToolEntryOf(name, <<Pair("pattern", Ruler(n))>>, <<>>) :
             name \in {"Glob", "Grep"}, n \in Around(MdValueMax)}

OtherTools ==
    {ToolEntryOf(name, <<Pair("x", Ruler(n))>>, <<>>) :
        name \in {"mcp__srv__do", "NotebookEdit"},
        n \in Around(DetailValueMax) \cup Around(MdValueMax)
                  \cup Around(RawValueMax)}

\* Words of a result text: the four keywords in some case, and another word.
ResultWords ==
    {<<"e", "r", "r", "o", "r">>,
     <<"T", "r", "a", "c", "e", "b", "a", "c", "k">>,
     <<"E", "X", "C", "E", "P", "T", "I", "O", "N">>,
     <<"f", "a", "i", "l", "e", "d">>,
     <<"o", "k">>}

\* Result texts: a word after a characters and before b characters, the word
\* at the start, across the 2000th character or after it; and texts
\* without a word around the lengths at which the renderers cut.
ResultTexts ==
    {Ruler(a) \o w \o Ruler(b) :
        a \in {0, HtmlResultMax - 3} \cup Around(HtmlResultMax),
        w \in ResultWords, b \in {0, 3}}
    \cup {Ruler(n) : n \in Around(MdResultMax) \cup Around(RawResultMax)}

ResultTools ==
    {ToolEntryOf("Bash", <<Pair("command", Ruler(2))>>, r) : r \in ResultTexts}

Tools == BashTools \cup WebTools \cup TaskTools \cup FileTools
             \cup OtherTools \cup ResultTools

InitTool ==
    /\ Entry(<<>>) /\ NoManifest /\ MainIdle /\ MdIdle
    /\ EmbedIdle /\ SearchIdle /\ RunsIdle
    /\ tool \in Tools
    /\ shown = EmptyMap
    /\ tool_pc = "summary"

SpecTool == InitTool /\ [][NextTool]_vars

-----------------------------------------------------------------------------
(* Logs with several results for one id, for the image lists *)

\* Lines per log of results.
MaxResultLines == 4

\* a user record that only carries a result of k1 with one image
ResultJpeg ==
    Record("user", "user",
           ListContent(<<ToolResult("k1", ListContent(<<
               SubBlock("image", <<>>, JpegTwo)>>))>>),
           "t13")

\* a user record that only carries a result of k1 whose one image has no
\* base64 source
ResultUrl ==
    Record("user", "user",
           ListContent(<<ToolResult("k1", ListContent(<<
               SubBlock("text", <<"u">>, NoSource),
               SubBlock("image", <<>>, UrlImage)>>))>>),
           "t14")

ResultLines ==
    {UseOne, ResultStr, ResultList, ResultMany, ResultJpeg, ResultUrl}

ResultLogs == SeqsUpTo(ResultLines, MaxResultLines)

InitResults ==
    /\ NoManifest /\ MainIdle /\ MdIdle /\ ToolIdle
    /\ EmbedIdle /\ SearchIdle /\ RunsIdle
    /\ \E lines \in ResultLogs : Entry(lines)

SpecResults == InitResults /\ [][Next]_vars

-----------------------------------------------------------------------------
(* Runs over sessions whose names meet in one file name *)

\* a user record whose text differs from that of UserPlain in case and in a
\* character that is dropped from the session name
UserUpper == Record("user", "user", StrContent(<<"A", "?">>), "t15")

\* Texts of 51 characters that differ in the last one only.
LongText(last) == [n \in 1..(SafeNameChars + 1) |->
                      IF n <= SafeNameChars THEN "x" ELSE last]

UserLongY == Record("user", "user", StrContent(LongText("y")), "t16")

UserLongZ == Record("user", "user", StrContent(LongText("z")), "t17")

\* Logs that all parse and render, with the session names "a", "A", and
\* two names of 51 characters.
NameSessions ==
    {[log |-> <<UserPlain>>, render |-> "ok", project |-> "p"],
     [log |-> <<UserUpper, UseOne>>, render |-> "ok", project |-> "p"],
     [log |-> <<UserLongY>>, render |-> "ok", project |-> "p"],
     [log |-> <<UserLongZ>>, render |-> "ok", project |-> "p"]}

\* The start of a run over such sessions: git answers, no branch is given,
\* the manifest is absent or the list of an earlier run.
InitNames ==
    /\ Entry(<<>>) /\ MdIdle /\ ToolIdle
    /\ EmbedIdle /\ SearchIdle /\ RunsIdle
    /\ manifest_file \in {[state |-> "absent", entries |-> <<>>],
                          [state |-> "list", entries |-> <<EarlierEntry>>]}
    /\ last_export = EmptyMap
    /\ export_count = [path \in {} |-> 0]
    /\ last_written = <<>>
    /\ args \in [landing : BOOLEAN, all : BOOLEAN, format : {"html", "md"},
                 branch : {""},
                 jsonl : {<<>>} \cup {<<s>> : s \in NameSessions}]
    /\ args.landing => ~args.all /\ args.format = "html"
    /\ args.landing \/ args.all => args.jsonl = <<>>
    /\ env \in [sessions : IF args.landing \/ ~args.all THEN {<<>>}
                            ELSE SeqsUpTo(NameSessions, MaxSessions),
                newest : {<<>>},
                git : {[result |-> "ok", out |-> "feat"]}]
    /\ main_pc = "start"
    /\ session_idx = 1
    /\ jsonl_path = <<>>
    /\ out_files = EmptyMap
    /\ landing_page = [state |-> "absent", entries |-> <<>>]
    /\ reported = <<>>
    /\ processed = <<>>
    /\ dirs_made = FALSE

SpecNames == InitNames /\ [][NextMain]_vars

-----------------------------------------------------------------------------
(* generate_html: the plain text embedded in the page as RAW_TEXT *)

\* header = f"--- {role}" ... " ---", for a turn without a timestamp
\* (export.py:374-389)
RawHeader(t) == <<"--- ", IF t.role = "user" THEN "You" ELSE "Claude", " ---">>

\* The lines generate_raw_text appends for one turn (export.py:373-436).
RawTurnLines(t) ==
    <<RawHeader(t)>> \o t.texts
        \o (IF t.tool_uses = <<>> THEN <<>>
            ELSE LET parts == RawToolText(t.tool_uses[1])
                 IN  [n \in 1..Len(parts) |-> parts[n].label \o parts[n].text])
        \o <<<<>>>>

\* generate_raw_text(messages): '\n'.join(lines)
RECURSIVE RawLinesOf(_)
RawLinesOf(turns) ==
    IF turns = <<>> THEN <<>>
    ELSE RawTurnLines(Head(turns)) \o RawLinesOf(Tail(turns))

GenerateRawText(turns) == JoinWithNewlines(RawLinesOf(turns))

\* What json.dumps writes for one character of a string: the quote, the
\* backslash and the line end are escaped, every other character of the
\* texts explored stands for itself.  The labels that begin with a line
\* end are single elements of the text here.
JsonChar(c) ==
    IF c = "\"" THEN <<"\\", "\"">>
    ELSE IF c = "\\" THEN <<"\\", "\\">>
    ELSE IF c = "\n" THEN <<"\\", "n">>
    ELSE IF c = "\n[Tool: " THEN <<"\\", "n", "[Tool: ">>
    ELSE IF c = "\n[Output]" THEN <<"\\", "n", "[Output]">>
    ELSE <<c>>

RECURSIVE JsonChars(_)
JsonChars(s) ==
    IF s = <<>> THEN <<>> ELSE JsonChar(Head(s)) \o JsonChars(Tail(s))

\* json.dumps(raw_text)
JsonDumps(s) == <<"\"">> \o JsonChars(s) \o <<"\"">>

ScriptEndTag == <<"<", "/", "s", "c", "r", "i", "p", "t", ">">>

EscapedScriptEndTag == <<"<", "\\", "/", "s", "c", "r", "i", "p", "t", ">">>

\* raw_text_js = json.dumps(raw_text).replace('</script>', r'<\/script>')
RawTextJs(raw_text) ==
    ReplaceFrom(JsonDumps(raw_text), 1, ScriptEndTag, EscapedScriptEndTag)

\* The page is generated: the plain text is computed and embedded
\* (export.py:1053-1055, 1321-1322).
EmbedRawText ==
    /\ embed_pc = "raw"
    /\ raw_text_js' = RawTextJs(GenerateRawText(<<page_turn>>))
    /\ embed_pc' = "done"
    /\ UNCHANGED page_turn
    /\ UNCHANGED <<parseVars, manifestVars, mainVars, mdVars, toolVars>>
    /\ UNCHANGED <<searchVars, runVars>>

NextEmbed == EmbedRawText

\* Pieces of a text of the log.
MaxScriptPieces == 3

ScriptPieces ==
    {<<"<", "/">>, <<"s", "c", "r", "i", "p", "t">>,
     <<"S", "C", "R", "I", "P", "T">>, <<">">>, <<" ">>, <<"\\">>, <<"\"">>,
     <<"\n">>, <<"a">>}

PageTurnOf(role, texts, tool_uses) ==
    [role |-> role, texts |-> texts, tool_uses |-> tool_uses]

\* One turn whose text, tool input or tool result is one of the texts.
PageTurnsOf(texts) ==
    {PageTurnOf(role, <<t>>, <<>>) : role \in {"user", "assistant"},
                                     t \in texts}
    \cup {PageTurnOf("assistant", <<>>,
                     <<ToolEntryOf("Bash", <<Pair("command", t)>>, <<>>)>>) :
             t \in texts}
    \cup {PageTurnOf("assistant", <<>>,
                     <<ToolEntryOf("Read", <<Pair("file_path", <<"f">>)>>,
                                   t)>>) : t \in texts}

InitEmbed ==
    /\ Entry(<<>>) /\ NoManifest /\ MainIdle /\ MdIdle /\ ToolIdle
    /\ SearchIdle /\ RunsIdle
    /\ page_turn \in PageTurnsOf(Concats(ScriptPieces, MaxScriptPieces))
    /\ raw_text_js = <<>>
    /\ embed_pc = "raw"

SpecEmbed == InitEmbed /\ [][NextEmbed]_vars

-----------------------------------------------------------------------------
(* update_manifest called by export runs that are not coordinated *)

\* Export runs at work on the same exports directory.
MaxRuns == 2

RunIds == 1..MaxRuns

\* len(datetime.now().isoformat()): 2026-01-01T00:00:00.000001
IsoChars == 26

\* The characters json.dump(..., indent=2) writes for one member of an
\* entry: four spaces, the key in quotes, a colon and a space, the value.
MemberChars(key_chars, value_chars) == 4 + (key_chars + 2) + 2 + value_chars

\* A string value without characters to escape, in quotes.
StringChars(value) == Len(value) + 2

\* The characters written for one entry (export.py:1364-1372): "  {", the
\* seven members on a line each with a comma between, "  }".
EntryChars(e) ==
    3 + 1
    + MemberChars(4, StringChars(e.path)) + 2
    + MemberChars(7, StringChars(e.project)) + 2
    + MemberChars(7, StringChars(e.session)) + 2
    + MemberChars(6, StringChars(e.branch)) + 2
    + MemberChars(5, Len(Decimal(e.turns))) + 2
    + MemberChars(4, Len(Decimal(e.size))) + 2
    + MemberChars(8, IsoChars + 2)
    + 1 + 3

RECURSIVE EntriesChars(_)
EntriesChars(manifest) ==
    IF manifest = <<>> THEN 0
    ELSE EntryChars(Head(manifest)) + EntriesChars(Tail(manifest))

\* len of what json.dump(manifest, f, indent=2) writes: "[]", or the
\* entries between "[" and "]" on lines of their own.
DumpChars(manifest) ==
    IF manifest = <<>> THEN 2
    ELSE 2 + EntriesChars(manifest) + 2 * (Len(manifest) - 1) + 2

\* The entry a run appends at the time "now" (export.py:1364-1372).
RunEntry(run, now) ==
    [path |-> run.rel_path, project |-> <<"p">>, session |-> run.session_name,
     branch |-> <<"m", "a", "i", "n">>, turns |-> 1, size |-> 10,
     exported |-> now]

\* datetime.now(): later than the time of every entry made before.
RunNow == 2 + Cardinality({q \in RunIds : runs[q].entry # <<>>})

RunStep(r, here, there, manifest) ==
    /\ runs[r].pc = here
    /\ runs' = [runs EXCEPT ![r].pc = there, ![r].manifest = manifest]

RunFrame ==
    /\ UNCHANGED <<last_export, export_count, last_written>>
    /\ UNCHANGED <<parseVars, mainVars, mdVars, toolVars>>
    /\ UNCHANGED <<embedVars, searchVars>>

\* export.py:1352-1358: the list is read, or [] when the file is absent
\* or is not JSON.
RunRead(r) ==
    /\ RunStep(r, "read", "filter", LoadManifest(manifest_file))
    /\ UNCHANGED <<manifest_file, manifest_chars, wrote>>
    /\ RunFrame

\* export.py:1361-1362
RunFilter(r) ==
    /\ RunStep(r, "filter", "append",
               WithoutPath(runs[r].manifest, runs[r].rel_path))
    /\ UNCHANGED <<manifest_file, manifest_chars, wrote>>
    /\ RunFrame

\* export.py:1364-1372
RunAppend(r) ==
    /\ runs[r].pc = "append"
    /\ LET entry == RunEntry(runs[r], RunNow)
       IN  runs' = [runs EXCEPT ![r].pc = "sort",
                                ![r].manifest = Append(@, entry),
                                ![r].entry = <<entry>>]
    /\ UNCHANGED <<manifest_file, manifest_chars, wrote>>
    /\ RunFrame

\* export.py:1375
RunSort(r) ==
    /\ RunStep(r, "sort", "open", SortByExported(runs[r].manifest))
    /\ UNCHANGED <<manifest_file, manifest_chars, wrote>>
    /\ RunFrame

\* open(manifest_path, 'w') (export.py:1377): the file is cut to no
\* characters; what this run writes will start at its beginning.
RunOpen(r) ==
    /\ RunStep(r, "open", "dump", runs[r].manifest)
    /\ manifest_file' = [state |-> "corrupt", entries |-> <<>>]
    /\ manifest_chars' = 0
    /\ UNCHANGED wrote
    /\ RunFrame

\* json.dump(manifest, f, indent=2) and the end of the with block
\* (export.py:1377-1378): the text of the list is written from the
\* beginning of the file.  Nothing in between removes what another run,
\* whose file was open as well, has written further on.
RunDump(r) ==
    /\ RunStep(r, "dump", "done", runs[r].manifest)
    /\ LET chars == DumpChars(runs[r].manifest)
       IN  /\ manifest_file' =
                  IF manifest_chars <= chars
                  THEN [state |-> "list", entries |-> runs[r].manifest]
                  ELSE [state |-> "corrupt", entries |-> <<>>]
           /\ manifest_chars' =
                  IF manifest_chars <= chars THEN chars ELSE manifest_chars
    /\ wrote' = Append(wrote, r)
    /\ RunFrame

NextRuns ==
    \E r \in RunIds :
        \/ RunRead(r)
        \/ RunFilter(r)
        \/ RunAppend(r)
        \/ RunSort(r)
        \/ RunOpen(r)
        \/ RunDump(r)

RunPaths ==
    {<<"p", "/", "a", ".", "h", "t", "m", "l">>,
     <<"p", "/", "b", ".", "h", "t", "m", "l">>}

\* An entry left by an earlier run.
OldEntry ==
    [path |-> <<"p", "/", "a", ".", "h", "t", "m", "l">>, project |-> <<"p">>,
     session |-> <<"o", "l", "d">>, branch |-> <<"m", "a", "i", "n">>,
     turns |-> 1, size |-> 10, exported |-> 1]

\* The runs are about to call update_manifest: run r for a session whose
\* name has r characters.  The manifest is absent or holds one entry.
InitRuns ==
    /\ Entry(<<>>) /\ MainIdle /\ MdIdle /\ ToolIdle
    /\ EmbedIdle /\ SearchIdle
    /\ \E paths \in [RunIds -> RunPaths] :
           runs = [r \in RunIds |->
                      [pc |-> "read", rel_path |-> paths[r],
                       session_name |-> [i \in 1..r |-> "s"],
                       manifest |-> <<>>, entry |-> <<>>]]
    /\ manifest_file \in {[state |-> "absent", entries |-> <<>>],
                          [state |-> "list", entries |-> <<OldEntry>>]}
    /\ manifest_chars = IF manifest_file.state = "list"
                        THEN DumpChars(manifest_file.entries) ELSE 0
    /\ wrote = <<>>
    /\ last_export = EmptyMap
    /\ export_count = [path \in {} |-> 0]
    /\ last_written = <<>>

SpecRuns == InitRuns /\ [][NextRuns]_vars

-----------------------------------------------------------------------------
(* The search of the generated page: doSearch, highlightMatches,           *)
(* clearHighlights, closeSearch                                             *)

\* An element the search highlights in is kept as the list of its leaves in
\* document order.  A leaf is a text node, or a span of the search holding
\* one text node; its parent is the element itself (0) or the k-th
\* <strong> element inside it.
TextNode(parent, text) == [parent |-> parent, cls |-> "", text |-> text]

SpanNode(parent, cls, text) == [parent |-> parent, cls |-> cls, text |-> text]

TargetOf(sel, leaves) == [sel |-> sel, leaves |-> leaves]

\* What the HTML parser makes of the inside of a paragraph: characters and
\* <strong> elements.
RECURSIVE LeavesOfMarkup(_, _, _, _)
LeavesOfMarkup(markup, parent, strongs, text) ==
    LET flush == IF text = <<>> THEN <<>> ELSE <<TextNode(parent, text)>>
    IN  IF markup = <<>> THEN flush
        ELSE IF Head(markup) = "<strong>"
        THEN flush \o LeavesOfMarkup(Tail(markup), strongs + 1, strongs + 1, <<>>)
        ELSE IF Head(markup) = "</strong>"
        THEN flush \o LeavesOfMarkup(Tail(markup), 0, strongs, <<>>)
        ELSE LeavesOfMarkup(Tail(markup), parent, strongs,
                            Append(text, Head(markup)))

\* The markup is one paragraph of characters and <strong> elements.
IsParagraph(markup) ==
    /\ Len(markup) > 2
    /\ markup[1] = "<p>"
    /\ markup[Len(markup)] = "</p>"
    /\ \A n \in 2..(Len(markup) - 1) :
           markup[n] \in {"<strong>", "</strong>"} \/ markup[n] \notin Markup

\* The line of a part of the tool formatters.
PartLine(part) == part.label \o part.text

RECURSIVE PartLines(_)
PartLines(parts) ==
    IF parts = <<>> THEN <<>>
    ELSE <<PartLine(Head(parts))>> \o PartLines(Tail(parts))

\* The elements of one message that highlightMatches selects, in document
\* order (export.py:979-1036): for each tool the summary and the tool
\* input, then the paragraph of the message body.
PageDom(t) ==
    (IF t.tool_uses = <<>> THEN <<>>
     ELSE <<TargetOf("summary",
                     <<TextNode(0, PartLine(ToolSummary(t.tool_uses[1])))>>),
            TargetOf("tool-input",
                     <<TextNode(0, JoinWithNewlines(
                                       PartLines(ToolFullDetail(t.tool_uses[1]))))>>)>>)
    \o <<TargetOf("p", LeavesOfMarkup(
                           SubSeq(MdToHtml(t.texts[1]), 2,
                                  Len(MdToHtml(t.texts[1])) - 1), 0, 0, <<>>))>>

\* element.textContent
RECURSIVE TextContent(_)
TextContent(leaves) ==
    IF leaves = <<>> THEN <<>>
    ELSE Head(leaves).text \o TextContent(Tail(leaves))

\* new RegExp(escapeRegex(query), 'gi') matches at position p of the text:
\* the characters of the query, without regard to case.
MatchAt(text, p, query) ==
    /\ p + Len(query) - 1 <= Len(text)
    /\ Lower(SubSeq(text, p, p + Len(query) - 1)) = Lower(query)

\* The while loops over regex.exec: the matches from left to right, each
\* search going on where the match before ended.
RECURSIVE MatchesFrom(_, _, _)
MatchesFrom(text, p, query) ==
    IF p > Len(text) THEN <<>>
    ELSE IF MatchAt(text, p, query)
    THEN <<p>> \o MatchesFrom(text, p + Len(query), query)
    ELSE MatchesFrom(text, p + 1, query)

\* The fragment that replaces a text node (export.py:1232-1254): the text
\* before a match, the match in a span, and the text that remains.
RECURSIVE Fragment(_, _, _, _, _)
Fragment(text, p, lastIdx, query, parent) ==
    IF p > Len(text)
    THEN IF lastIdx <= Len(text)
         THEN <<TextNode(parent, SubSeq(text, lastIdx, Len(text)))>>
         ELSE <<>>
    ELSE IF MatchAt(text, p, query)
    THEN (IF p > lastIdx
          THEN <<TextNode(parent, SubSeq(text, lastIdx, p - 1))>>
          ELSE <<>>)
         \o <<SpanNode(parent, "search-highlight",
                       SubSeq(text, p, p + Len(query) - 1))>>
         \o Fragment(text, p + Len(query), p + Len(query), query, parent)
    ELSE Fragment(text, p + 1, lastIdx, query, parent)

\* target.querySelector('.search-highlight') among the leaves under the
\* given parents
HasHighlight(leaves, parents) ==
    \E n \in 1..Len(leaves) :
        leaves[n].parent \in parents /\ leaves[n].cls = "search-highlight"

\* The text nodes under the given parents are replaced by their fragments.
RECURSIVE WrapLeaves(_, _, _)
WrapLeaves(leaves, query, parents) ==
    IF leaves = <<>> THEN <<>>
    ELSE LET leaf == Head(leaves)
         IN  (IF leaf.cls = "" /\ leaf.parent \in parents
                    /\ MatchesFrom(leaf.text, 1, query) # <<>>
              THEN Fragment(leaf.text, 1, 1, query, leaf.parent)
              ELSE <<leaf>>)
             \o WrapLeaves(Tail(leaves), query, parents)

ParentsOf(leaves) == {leaves[n].parent : n \in 1..Len(leaves)} \cup {0}

\* One target of highlightMatches (export.py:1220-1255): skipped when it
\* holds a highlight already.
HighlightIn(leaves, query, parents) ==
    IF HasHighlight(leaves, parents) THEN leaves
    ELSE WrapLeaves(leaves, query, parents)

\* The <strong> elements of a paragraph are targets as well, after it.
RECURSIVE HighlightStrongs(_, _, _)
HighlightStrongs(leaves, query, k) ==
    IF k \notin ParentsOf(leaves) THEN leaves
    ELSE HighlightStrongs(HighlightIn(leaves, query, {k}), query, k + 1)

HighlightTarget(t, query) ==
    LET whole == HighlightIn(t.leaves, query, ParentsOf(t.leaves))
    IN  [t EXCEPT !.leaves = IF t.sel = "p"
                             THEN HighlightStrongs(whole, query, 1)
                             ELSE whole]

\* highlightMatches(query)
HighlightMatches(d, query) == [i \in 1..Len(d) |-> HighlightTarget(d[i], query)]

\* The spans of the search among the leaves of the whole page.
RECURSIVE AllLeaves(_)
AllLeaves(d) ==
    IF d = <<>> THEN <<>> ELSE Head(d).leaves \o AllLeaves(Tail(d))

SearchClasses == {"search-highlight", "search-highlight-active"}

Spans(d) == SelectSeq(AllLeaves(d), LAMBDA leaf : leaf.cls \in SearchClasses)

\* parent.normalize(): text nodes that follow one another under the parent
\* or under an element inside it become one node.
RECURSIVE Normalize(_, _)
Normalize(leaves, parents) ==
    IF Len(leaves) < 2 THEN leaves
    ELSE LET a == leaves[1]
             b == leaves[2]
         IN  IF a.cls = "" /\ b.cls = "" /\ a.parent = b.parent
                   /\ a.parent \in parents
             THEN Normalize(<<TextNode(a.parent, a.text \o b.text)>>
                                \o SubSeq(leaves, 3, Len(leaves)), parents)
             ELSE <<a>> \o Normalize(Tail(leaves), parents)

\* Mutant of Selected: the spans of class search-highlight only.
SelectedPlainOnly(leaf) == leaf.cls = "search-highlight"

\* document.querySelectorAll('.search-highlight, .search-highlight-active')
Selected(leaf) == leaf.cls \in SearchClasses

\* The body of the forEach of clearHighlights on the span at position n:
\* the span is replaced by a text node of its text and the parent is
\* normalized.
ClearSpan(leaves, n) ==
    LET span == leaves[n]
        replaced == [leaves EXCEPT ![n] = TextNode(span.parent, span.text)]
    IN  Normalize(replaced,
                  IF span.parent = 0 THEN ParentsOf(leaves) ELSE {span.parent})

RECURSIVE ClearLeaves(_)
ClearLeaves(leaves) ==
    IF \E n \in 1..Len(leaves) : Selected(leaves[n])
    THEN ClearLeaves(ClearSpan(leaves,
             Least({n \in 1..Len(leaves) : Selected(leaves[n])})))
    ELSE leaves

\* clearHighlights() on the elements of the page
ClearHighlights(d) ==
    [i \in 1..Len(d) |-> [d[i] EXCEPT !.leaves = ClearLeaves(d[i].leaves)]]

\* The results of doSearch (export.py:1092-1128): for each element searched
\* its matches, numbered through.  The text of a message body is that of
\* its paragraph.
RECURSIVE ResultsFrom(_, _, _, _)
ResultsFrom(d, i, query, hits) ==
    IF i > Len(d) THEN <<>>
    ELSE LET found == MatchesFrom(TextContent(d[i].leaves), 1, query)
         IN  [n \in 1..Len(found) |->
                 [target |-> i, matchIndex |-> found[n] - 1,
                  hitNum |-> hits + n]]
             \o ResultsFrom(d, i + 1, query, hits + Len(found))

\* What the search box holds when Enter is pressed.
SearchInputs ==
    {<<"a">>, <<"a", "b">>, <<"B">>, <<" ">>, <<" ", "a", "a", " ">>}

\* doSearch(): nothing happens for a query that is blank; else the
\* highlights of the search before are cleared, the matches are counted,
\* highlighted and listed, and the panel is opened.
DoSearch ==
    \E input \in SearchInputs :
        LET query == Strip(input)
            cleared == ClearHighlights(dom)
            results == ResultsFrom(cleared, 1, query, 0)
        IN  /\ search_pc # "idle"
            /\ IF query = <<>>
               THEN UNCHANGED searchVars
               ELSE /\ dom' = HighlightMatches(cleared, query)
                    /\ currentHighlights' = Len(Spans(dom'))
                    /\ panel' = [open |-> TRUE, title |-> Len(results),
                                 info |-> <<query, Len(results)>>,
                                 hitCount |-> <<Len(results)>>,
                                 list |-> results, selected |-> 0]
                    /\ search_pc' = "searched"
                    /\ UNCHANGED loaded
            /\ UNCHANGED <<parseVars, manifestVars, mainVars, mdVars, toolVars>>
            /\ UNCHANGED <<embedVars, runVars>>

\* The leaves with the span number "hit" of the page made the active one and
\* every other span an ordinary one; seen counts the spans of the elements
\* before.
RECURSIVE Activate(_, _, _)
Activate(leaves, hit, seen) ==
    IF leaves = <<>> THEN <<>>
    ELSE LET leaf == Head(leaves)
         IN  IF leaf.cls \in SearchClasses
             THEN <<[leaf EXCEPT !.cls = IF seen + 1 = hit
                                         THEN "search-highlight-active"
                                         ELSE "search-highlight"]>>
                  \o Activate(Tail(leaves), hit, seen + 1)
             ELSE <<leaf>> \o Activate(Tail(leaves), hit, seen)

RECURSIVE ActivateIn(_, _, _)
ActivateIn(d, hit, seen) ==
    IF d = <<>> THEN <<>>
    ELSE <<[Head(d) EXCEPT !.leaves = Activate(Head(d).leaves, hit, seen)]>>
         \o ActivateIn(Tail(d), hit,
                       seen + Len(SelectSeq(Head(d).leaves,
                                            LAMBDA leaf : leaf.cls \in SearchClasses)))

\* A click on the item "hit" of the result list (export.py:1154-1200): the
\* item is the selected one; whatever was activated before, in the end
\* every span is an ordinary highlight but the span number "hit" of the
\* page, when there is one.
SelectHit ==
    \E hit \in 1..Len(panel.list) :
        /\ search_pc = "searched"
        /\ dom' = ActivateIn(dom, hit, 0)
        /\ panel' = [panel EXCEPT !.selected = hit]
        /\ UNCHANGED <<loaded, currentHighlights, search_pc>>
        /\ UNCHANGED <<parseVars, manifestVars, mainVars, mdVars, toolVars>>
        /\ UNCHANGED <<embedVars, runVars>>

\* closeSearch() (export.py:1269-1275): the title and the info line of the
\* panel are left as the last search wrote them.
CloseSearch ==
    /\ search_pc # "idle"
    /\ dom' = ClearHighlights(dom)
    /\ currentHighlights' = 0
    /\ panel' = [panel EXCEPT !.open = FALSE, !.list = <<>>,
                              !.hitCount = <<>>, !.selected = 0]
    /\ search_pc' = "closed"
    /\ UNCHANGED loaded
    /\ UNCHANGED <<parseVars, manifestVars, mainVars, mdVars, toolVars>>
    /\ UNCHANGED <<embedVars, runVars>>

NextSearch ==
    \/ DoSearch
    \/ SelectHit
    \/ CloseSearch

\* Pieces of the text of a turn.
MaxSearchPieces == 4

SearchPieces == {<<"a">>, <<"b">>, <<"A">>, <<"*", "*">>}

\* The turns of the pages explored: a text that md_to_html makes one
\* paragraph of, alone or after a Bash tool.
SearchTurns ==
    {PageTurnOf("user", <<t>>, <<>>) :
        t \in {x \in Concats(SearchPieces, MaxSearchPieces) :
                  IsParagraph(MdToHtml(x))}}
    \cup {PageTurnOf("assistant", <<t>>,
                     <<ToolEntryOf("Bash", <<Pair("command", c)>>, <<>>)>>) :
             t \in {<<"a">>, <<"*", "*", "a", "*", "*", "b">>},
             c \in {<<"a", "b">>, <<"A", "a">>}}

\* The page has been generated from one turn and is loaded: nothing is
\* highlighted, the panel is closed and its title reads "(0 hits)".
InitSearch ==
    /\ Entry(<<>>) /\ NoManifest /\ MainIdle /\ MdIdle /\ ToolIdle
    /\ RunsIdle
    /\ page_turn \in SearchTurns
    /\ raw_text_js = RawTextJs(GenerateRawText(<<page_turn>>))
    /\ embed_pc = "done"
    /\ dom = PageDom(page_turn)
    /\ loaded = [dom |-> dom, RAW_TEXT |-> raw_text_js]
    /\ panel = [open |-> FALSE, title |-> 0, info |-> <<>>, hitCount |-> <<>>,
                list |-> <<>>, selected |-> 0]
    /\ currentHighlights = 0
    /\ search_pc = "loaded"

SpecSearch == InitSearch /\ [][NextSearch]_vars

-----------------------------------------------------------------------------
(* What the claims speak of, stated on the log itself *)

Ids == {"k1", "k2"}

Range(q) == {q[n] : n \in 1..Len(q)}

IsToolResult(b) == b.isdict /\ b.type = "tool_result"

IsToolUse(b) == b.isdict /\ b.type = "tool_use"

\* The tool_result blocks for id k in the user records, in file order.
RECURSIVE ResultBlocksFor(_, _)
ResultBlocksFor(records, k) ==
    IF records = <<>> THEN <<>>
    ELSE LET d == records[Len(records)]
             before == ResultBlocksFor(SubSeq(records, 1, Len(records) - 1), k)
         IN  IF d.hastype /\ d.type = "user" /\ ~d.content.isstr
             THEN before \o SelectSeq(d.content.list,
                                      LAMBDA b : IsToolResult(b) /\ b.id = k)
             ELSE before

\* The texts of the "text" sub-blocks of a list content, in order.
SubTexts(content) ==
    LET texts == SelectSeq(content.list,
                           LAMBDA rc : rc.isdict /\ rc.type = "text")
    IN  [n \in 1..Len(texts) |-> texts[n].text]

RECURSIVE JoinLines(_)
JoinLines(texts) ==
    IF texts = <<>> THEN <<>>
    ELSE IF Len(texts) = 1 THEN texts[1]
    ELSE texts[1] \o <<"\n">> \o JoinLines(Tail(texts))

\* The text of a result block before any trimming.
JoinedText(b) ==
    IF b.content.isstr THEN b.content.str ELSE JoinLines(SubTexts(b.content))

\* The text the claim C1 gives a result block: a list is joined and trimmed,
\* a string is taken as it is.
ClaimedText(b) ==
    IF b.content.isstr THEN b.content.str ELSE Strip(JoinedText(b))

\* The data URIs of the base64 "image" sub-blocks of a result block.
SubImages(b) ==
    LET imgs == SelectSeq(b.content.list,
                          LAMBDA rc : rc.isdict /\ rc.type = "image"
                                      /\ rc.source.type = "base64")
    IN  [n \in 1..Len(imgs) |-> DataUri(imgs[n].source)]

Last(q) == q[Len(q)]

\* The tool invocations of a turn sequence.
InvocationsOf(msgs) == UNION {Range(msgs[j].tool_uses) : j \in 1..Len(msgs)}

-----------------------------------------------------------------------------
(* C1 *)

\* C1 as claimed: for every id k found in a tool_use block and in a
\* tool_result block, the invocation's result text is the text of a result
\* block for k: its text sub-blocks joined with newlines and trimmed, or
\* its string content as it is.
C1_AsClaimed ==
    pc = "done" =>
        \A e \in InvocationsOf(messages) :
            LET blocks == ResultBlocksFor(all_records, e.id)
            IN  (e.id # "" /\ blocks # <<>>) =>
                    \E n \in 1..Len(blocks) : e.result = ClaimedText(blocks[n])

\* C1, amended: for every id k found in a tool_use block and in a
\* tool_result block of a user record, the invocation's result text is the
\* trimmed text of k's result block (the last in file order when there are
\* several): its text sub-blocks joined with newlines, or its string
\* content, trimmed in both cases.
C1_ResultText ==
    pc = "done" =>
        \A e \in InvocationsOf(messages) :
            LET blocks == ResultBlocksFor(all_records, e.id)
            IN  (e.id # "" /\ blocks # <<>>) =>
                    e.result = Strip(JoinedText(Last(blocks)))

\* An invocation of k1 got the two text sub-blocks of its one list result,
\* joined by a newline, the outer whitespace trimmed.
C1_Witness ==
    /\ pc = "done"
    /\ \E e \in InvocationsOf(messages) :
          /\ e.id = "k1"
          /\ Len(ResultBlocksFor(all_records, "k1")) = 1
          /\ e.result = <<"b", " ", "\n", " ", "c">>

-----------------------------------------------------------------------------
(* C2 *)

\* The sequence with its element at position from moved to position to.
Move(q, from, to) ==
    LET rest == SubSeq(q, 1, from - 1) \o SubSeq(q, from + 1, Len(q))
    IN  SubSeq(rest, 1, to - 1) \o <<q[from]>> \o SubSeq(rest, to, Len(rest))

\* Each id has at most one tool_result block in the log.
OneResultPerId(lines) ==
    \A k \in Ids : Len(ResultBlocksFor(LoadRecords(lines), k)) <= 1

\* The result text and images of every invocation, by id.
ResultsById(msgs) ==
    {<<e.id, e.result, e.result_images>> : e \in InvocationsOf(msgs)}

\* C2: in a log with one tool_result block per id, moving a user record to
\* any other position leaves the result text and images of every
\* invocation as they are.
C2_PositionIndependent ==
    (pc = "done" /\ OneResultPerId(file)) =>
        \A from \in 1..Len(file), to \in 1..Len(file) :
            (file[from].parses /\ file[from].type = "user") =>
                ResultsById(ParseMessages(Move(file, from, to)).messages)
                    = ResultsById(messages)

\* A result record that stands before its invocation, with a record in
\* between, has reached the invocation.
C2_Witness ==
    /\ pc = "done"
    /\ OneResultPerId(file)
    /\ Len(file) = 3
    /\ file[1] = ResultStr
    /\ file[3] = UseOne
    /\ \E e \in InvocationsOf(messages) : e.id = "k1" /\ e.result = <<"a">>

-----------------------------------------------------------------------------
(* C3 *)

\* Visibility as the specification words it.
SpecVisible(t) ==
    IF t.role = "user" THEN Len(t.texts) >= 1 \/ Len(t.images) >= 1
    ELSE IF t.role = "assistant"
         THEN Len(t.texts) >= 1 \/ Len(t.tool_uses) >= 1 \/ Len(t.images) >= 1
         ELSE FALSE

\* The turn of the n-th record, with the results known after the first pass.
TurnOf(n) == BuildTurn(all_records[n], tool_results_map, tool_result_images)

-----------------------------------------------------------------------------
(* C4 *)

\* A user record whose content is a non-empty list of tool_result blocks.
OnlyToolResults(d) ==
    /\ d.hastype /\ d.type = "user"
    /\ ~d.content.isstr
    /\ d.content.list # <<>>
    /\ \A n \in 1..Len(d.content.list) : IsToolResult(d.content.list[n])

\* C4: a user record that holds only tool_result blocks gives no turn;
\* what it carries is found in the result of the invocations of its ids.
C4_ResultOnlyNoTurn ==
    pc = "done" =>
        \A n \in 1..Len(all_records) :
            OnlyToolResults(all_records[n]) =>
                /\ n \notin Range(origin)
                /\ \A j \in 1..Len(messages) :
                      messages[j].timestamp # all_records[n].timestamp

\* A result-only record was read, gave no turn, and its text is the result
\* of the invocation that was returned.
C4_Witness ==
    /\ pc = "done"
    /\ \E n \in 1..Len(all_records) :
          all_records[n] = ResultStr /\ n \notin Range(origin)
    /\ \E e \in InvocationsOf(messages) : e.id = "k1" /\ e.result = <<"a">>

-----------------------------------------------------------------------------
(* C5 *)

\* Record d invokes a tool and its turn has the assistant role.
AssistantInvokes(d) ==
    /\ d.hastype /\ d.type \in {"user", "assistant"}
    /\ (IF d.role = "" THEN d.type ELSE d.role) = "assistant"
    /\ ~d.content.isstr
    /\ \E n \in 1..Len(d.content.list) : IsToolUse(d.content.list[n])

\* C5: an invocation whose id has no tool_result in the log has the empty
\* result text and no result images; the turn of an assistant record that
\* invokes a tool is returned whether or not the result is there, and
\* nothing but a line without "type" makes the parse fail.
C5_UnmatchedInvocation ==
    /\ pc = "done" =>
          /\ \A e \in InvocationsOf(messages) :
                ResultBlocksFor(all_records, e.id) = <<>> =>
                    e.result = <<>> /\ e.result_images = <<>>
          /\ \A n \in 1..Len(all_records) :
                AssistantInvokes(all_records[n]) =>
                    \E j \in 1..Len(messages) :
                        /\ origin[j] = n
                        /\ Len(messages[j].tool_uses) =
                               Len(SelectSeq(all_records[n].content.list,
                                             IsToolUse))
    /\ pc = "raised" => \E n \in 1..Len(file) : file[n] = NoTypeLine

\* The invocation of k1 was returned without a result: no record of the
\* log carries one.
C5_Witness ==
    /\ pc = "done"
    /\ ResultBlocksFor(all_records, "k1") = <<>>
    /\ \E j \in 1..Len(messages) :
          /\ messages[j].texts = <<>>
          /\ \E e \in Range(messages[j].tool_uses) :
                e.id = "k1" /\ e.result = <<>> /\ e.result_images = <<>>

-----------------------------------------------------------------------------
(* C6 *)

\* What the call gave: the turns, or nothing when it raised.
Outcome ==
    IF pc = "raised" THEN [status |-> "raised", messages |-> <<>>]
    ELSE [status |-> "ok", messages |-> messages]

Parseable(line) == line.parses

\* C6: the call gives what it gives for the file without its unparseable
\* lines, and the records are the parseable lines in file order.
C6_BadLinesSkipped ==
    /\ pc \in {"done", "raised"} =>
          Outcome = ParseMessages(SelectSeq(file, Parseable))
    /\ pc # "load" => all_records = SelectSeq(file, Parseable)

\* A log with an unparseable line between two records gave both turns.
C6_Witness ==
    /\ pc = "done"
    /\ Len(file) = 3
    /\ file[1] = UserPlain /\ file[2] = BadLine /\ file[3] = UseOne
    /\ Len(messages) = 2

-----------------------------------------------------------------------------
(* C7 *)

\* C7: the turns follow the order of their records, a record gives at most
\* one turn, only user and assistant records give one, and the records
\* follow the order of the lines.
C7_FileOrder ==
    /\ Len(origin) = Len(messages)
    /\ \A j \in 1..Len(origin) :
          /\ origin[j] \in 1..Len(all_records)
          /\ all_records[origin[j]].type \in {"user", "assistant"}
          /\ messages[j].timestamp = all_records[origin[j]].timestamp
    /\ \A j, m \in 1..Len(origin) : j < m => origin[j] < origin[m]
    /\ \E cut \in 0..Len(file) :
          all_records = SelectSeq(SubSeq(file, 1, cut), Parseable)

\* Three records, the second of another type: two turns, in file order.
C7_Witness ==
    /\ pc = "done"
    /\ all_records = <<UseOne, SystemRecord, UserPlain>>
    /\ origin = <<1, 3>>

-----------------------------------------------------------------------------
(* C9 *)

\* The text the first pass stores for a result block.
StoredText(b) == Strip(JoinedText(b))

-----------------------------------------------------------------------------
(* C8, under SpecText *)

\* t holds a complete annotated span: an opening marker and, after it, a
\* closing marker.
HasSpan(t) ==
    \E p \in 1..Len(t) :
        StartsAt(t, p, OpenMarker) /\ ClosesFrom(t, p + Len(OpenMarker)) # {}

MarkerChars == Range(OpenMarker) \cup Range(CloseMarker)

\* Every marker character of t stands inside a whole marker.
WholeMarkersOnly(t) ==
    \A p \in 1..Len(t) :
        t[p] \in MarkerChars =>
            \E q \in 1..p :
                \/ StartsAt(t, q, OpenMarker) /\ p < q + Len(OpenMarker)
                \/ StartsAt(t, q, CloseMarker) /\ p < q + Len(CloseMarker)

\* t is, but for outer whitespace, one annotated span: an opening marker,
\* a body without closing marker, a closing marker.
Enclosed(t) ==
    LET u == Strip(t)
    IN  /\ StartsAt(u, 1, OpenMarker)
        /\ ClosesFrom(u, 1 + Len(OpenMarker)) # {}
        /\ Min(ClosesFrom(u, 1 + Len(OpenMarker))) + Len(CloseMarker) - 1
               = Len(u)

\* The one record of the log, its text and whether it has an image.
TheText == file[1].content.list[1].text

HasImage == Len(file[1].content.list) > 1

IsUserText == (IF file[1].role = "" THEN file[1].type ELSE file[1].role) = "user"

\* The texts kept, whether or not the turn was returned.
Kept == IF messages = <<>> THEN <<>> ELSE messages[1].texts

C8_EnclosedAbsent ==
    /\ pc = "done"
    /\ IsUserText
    /\ TheText = OpenMarker \o <<"a">> \o CloseMarker
    /\ messages = <<>>

-----------------------------------------------------------------------------
(* C10, under SpecManifest *)

\* C10: the manifest has at most one entry per output path, the entry of a
\* path is the entry of the most recent export to that path, and every path
\* exported to has its entry.
C10_OneEntryPerPath ==
    LET m == manifest_file.entries
    IN  /\ \A a, b \in 1..Len(m) : m[a].path = m[b].path => a = b
        /\ \A a \in 1..Len(m) :
              /\ m[a].path \in DOMAIN last_export
              /\ m[a] = last_export[m[a].path]
        /\ \A path \in DOMAIN last_export :
              \E a \in 1..Len(m) : m[a].path = path

\* Two paths were exported to, one of them twice, and its entry carries
\* what the second export said.
C10_Witness ==
    /\ Len(manifest_file.entries) = 2
    /\ export_count["p/a.html"] = 2
    /\ \E a \in 1..2 :
          manifest_file.entries[a] =
              [path |-> "p/a.html", project |-> "p", session |-> "s2",
               branch |-> "dev", turns |-> 2, size |-> 20, exported |-> 1]
    /\ \E a \in 1..2 :
          /\ manifest_file.entries[a].path = "p/b.html"
          /\ manifest_file.entries[a].exported = 3

-----------------------------------------------------------------------------
(* C11, under SpecManifest *)

Descending(m) == \A a, b \in 1..Len(m) : a < b => m[a].exported >= m[b].exported

\* The original statement of C11: the list is descending by export time and
\* the entry just written is first whenever no entry carries a later time.
C11_AsClaimed ==
    LET m == manifest_file.entries
    IN  /\ Descending(m)
        /\ last_written # <<>> =>
              ((\A a \in 1..Len(m) : m[a].exported <= last_written[1].exported)
                  => m[1] = last_written[1])

\* C11: after every update_manifest call the persisted list is descending
\* by export time, and the entry just written stands right after the other
\* entries whose time is not earlier than its own: it is first when its
\* time is strictly later than every other entry's, and it follows the
\* entries already there that carry the same time.
C11_Descending ==
    LET m == manifest_file.entries
    IN  /\ Descending(m)
        /\ last_written # <<>> =>
              LET w == last_written[1]
                  ahead == {a \in 1..Len(m) : /\ m[a].path # w.path
                                              /\ m[a].exported >= w.exported}
              IN  /\ Len(m) > Cardinality(ahead)
                  /\ m[Cardinality(ahead) + 1] = w

\* Three exports: the last one written carries the time of an entry already
\* there and stands behind it, ahead of an earlier one.
C11_Witness ==
    /\ ExportCalls = 3
    /\ Len(manifest_file.entries) = 2
    /\ last_written # <<>>
    /\ manifest_file.entries[1].exported = 2
    /\ manifest_file.entries[2] = last_written[1]
    /\ last_written[1].exported = 2
    /\ export_count[last_written[1].path] = 2

-----------------------------------------------------------------------------
(* C12, C13, C14, under SpecMain *)

Batch == ~args.landing /\ args.all

Ended == main_pc \in {"exit0", "exit1", "raised"}

\* 1, 2, ..., n
UpTo(n) == [i \in 1..n |-> i]

\* The sessions of the batch that fail in parsing or in rendering.
Failing(i) == SessionOutcome(env.sessions[i]) \in {"parse_raised", "render_raised"}

\* The error lines a batch owes for its first n sessions, in order.
RECURSIVE FailureReports(_)
FailureReports(n) ==
    IF n = 0 THEN <<>>
    ELSE IF Failing(n)
    THEN Append(FailureReports(n - 1), [kind |-> "session", at |-> n])
    ELSE FailureReports(n - 1)

\* The original statement of C12: a batch with sessions ends normally, with
\* every session processed, every failure reported and the landing page
\* regenerated.
C12_AsClaimed ==
    Batch /\ Ended /\ env.sessions # <<>> =>
        /\ processed = UpTo(Len(env.sessions))
        /\ reported = FailureReports(Len(env.sessions))
        /\ main_pc = "exit0"
        /\ landing_page = [state |-> "written",
                           entries |-> manifest_file.entries]

\* C12: in a batch export a failure while parsing or rendering one session
\* is caught and reported for that session, and every remaining session is
\* still processed, in order.  After the last session an HTML run
\* regenerates the landing page from the manifest and ends normally when
\* the manifest file holds a list, ends normally without a landing page
\* when there is no manifest file, and ends with the exception of the
\* landing page generator when the manifest file is not JSON (no session
\* of the run was exported, so nothing rewrote it); a Markdown run ends
\* normally and leaves the landing page alone.
C12_BatchIsolation ==
    Batch /\ env.sessions # <<>> =>
        /\ main_pc = "batch" =>
              /\ processed = UpTo(session_idx - 1)
              /\ reported = FailureReports(session_idx - 1)
        /\ Ended =>
              /\ processed = UpTo(Len(env.sessions))
              /\ reported = FailureReports(Len(env.sessions))
              /\ main_pc # "exit1"
              /\ args.format = "md" =>
                    /\ main_pc = "exit0"
                    /\ landing_page.state = "absent"
              /\ args.format = "html" /\ manifest_file.state = "list" =>
                    /\ main_pc = "exit0"
                    /\ landing_page = [state |-> "written",
                                       entries |-> manifest_file.entries]
              /\ args.format = "html" /\ manifest_file.state = "absent" =>
                    /\ main_pc = "exit0"
                    /\ landing_page.state = "absent"
              /\ args.format = "html" /\ manifest_file.state = "corrupt" =>
                    /\ main_pc = "raised"
                    /\ out_files = EmptyMap

\* An HTML batch of two sessions: the first fails in rendering and is
\* reported, the second is exported, the landing page lists it.
C12_Witness ==
    /\ Batch /\ args.format = "html"
    /\ main_pc = "exit0"
    /\ Len(env.sessions) = 2
    /\ SessionOutcome(env.sessions[1]) = "render_raised"
    /\ reported = <<[kind |-> "session", at |-> 1]>>
    /\ processed = <<1, 2>>
    /\ DOMAIN out_files = {<<"p", <<"b">>, ".html">>}
    /\ landing_page.state = "written"
    /\ Len(landing_page.entries) = 1
    /\ landing_page.entries[1].session = <<"B">>

\* No input log can be resolved.
NoInput ==
    /\ ~args.landing
    /\ \/ args.all /\ env.sessions = <<>>
       \/ ~args.all /\ args.jsonl = <<>> /\ env.newest = <<>>

\* C13: when no input log can be resolved (none supplied and none detected,
\* or --all finds no session) the run prints its error and exits with
\* status 1 as its first step, and nothing has been written then: no export
\* file, no directory, no manifest update, no landing page.  No other run
\* exits with status 1.
C13_NoInputNoOutput ==
    /\ NoInput /\ main_pc # "start" =>
          /\ main_pc = "exit1"
          /\ reported = <<Fatal>>
          /\ out_files = EmptyMap
          /\ ~dirs_made
          /\ last_written = <<>>
          /\ manifest_file.state = "list" =>
                manifest_file.entries = <<EarlierEntry>>
          /\ landing_page.state = "absent"
    /\ main_pc = "exit1" => NoInput

\* A batch run that found no session has exited with status 1 beside the
\* manifest of an earlier run.
C13_Witness ==
    /\ args.all
    /\ env.sessions = <<>>
    /\ main_pc = "exit1"
    /\ manifest_file.state = "list"

\* A second state of C13's case: a single export without a log.
C13_SingleWitness ==
    /\ ~args.all /\ ~args.landing
    /\ args.jsonl = <<>>
    /\ main_pc = "exit1"
    /\ manifest_file.state = "corrupt"

\* No branch is supplied and the lookup fails.
LookupFails == args.branch = "" /\ env.git.result # "ok"

\* C14: when no branch is supplied and the lookup of the branch fails, for
\* whichever reason, every document and every manifest entry the run writes
\* carries the branch "main", and the export is not stopped by it: a single
\* export whose log parses and renders ends normally with its document
\* written, and a batch stops at no session.
C14_BranchFallback ==
    LookupFails =>
        /\ \A path \in DOMAIN out_files : out_files[path].branch = "main"
        /\ last_written # <<>> => last_written[1].branch = "main"
        /\ /\ Ended
           /\ jsonl_path # <<>>
           /\ SessionOutcome(jsonl_path[1]) \in {"exported", "no_turns"}
           /\ jsonl_path[1].render = "ok"
           => /\ main_pc = "exit0"
              /\ DOMAIN out_files # {}
        /\ Batch /\ Ended /\ env.sessions # <<>> =>
              processed = UpTo(Len(env.sessions))

\* A single HTML export where git is not installed: the document and the
\* manifest entry say "main".
C14_Witness ==
    /\ LookupFails
    /\ env.git.result = "FileNotFoundError"
    /\ main_pc = "exit0"
    /\ jsonl_path # <<>>
    /\ DOMAIN out_files = {<<"p", <<"a">>, ".html">>}
    /\ out_files[<<"p", <<"a">>, ".html">>].branch = "main"
    /\ manifest_file.entries[1].branch = "main"

-----------------------------------------------------------------------------
(* C15, C16, C17, under SpecMd *)

Entities ==
    {<<"&", "a", "m", "p", ";">>, <<"&", "l", "t", ";">>,
     <<"&", "g", "t", ";">>, <<"&", "q", "u", "o", "t", ";">>,
     <<"&", "#", "x", "2", "7", ";">>}

\* The characters of the input and of the five entities, and the newline
\* that joins the lines of the table rule.
InputChars == Range(md_in) \cup UNION {Range(e) : e \in Entities} \cup {"\n"}

\* C15: from the first rule on, the text holds no bare "<", ">" or quote
\* character, every "&" in it starts one of the five entities of
\* html.escape, and each of its elements is a piece of markup that a rule
\* of md_to_html emitted or a character of the escaped input: every tag of
\* the output comes from the transducer.
C15_Escaped ==
    md_stage >= 1 =>
        \A n \in 1..Len(md_out) :
            /\ md_out[n] \notin {"<", ">", "\"", "'"}
            /\ md_out[n] = "&" => \E e \in Entities : StartsAt(md_out, n, e)
            /\ md_out[n] \in Markup \cup InputChars

\* A bold span around the two quote characters has been rendered.
C15_Witness ==
    /\ md_stage = LastRule
    /\ md_in = <<"*", "*", "\"", "'", "*", "*">>
    /\ md_out = <<"<p>", "<strong>", "&", "q", "u", "o", "t", ";",
                  "&", "#", "x", "2", "7", ";", "</strong>", "</p>">>

\* The contents of the block code elements of a text, in order.
RECURSIVE CodeElements(_)
CodeElements(s) ==
    LET opens == {q \in 1..Len(s) : s[q] = PreOpen}
        open == Least(opens)
        closes == {q \in (open + 1)..Len(s) : s[q] = PreClose}
    IN  IF opens = {} THEN <<>>
        ELSE IF closes = {} THEN <<SubSeq(s, open + 1, Len(s))>>
        ELSE <<SubSeq(s, open + 1, Least(closes) - 1)>>
                 \o CodeElements(SubSeq(s, Least(closes) + 1, Len(s)))

\* C16: once the code block rule has run, the contents of the block code
\* elements stay what that rule made them (the escaped text between the
\* fences); no later rule rewrites them.
C16_CodeVerbatim ==
    md_stage >= 2 => CodeElements(md_out) = CodeElements(MdUpTo(2, md_in))

\* Two asterisk pairs between the fences have become a strong element
\* inside the block code element.
C16_Rewritten ==
    /\ md_stage = LastRule
    /\ md_in = Fence \o <<"\n", "*", "*", "a", "*", "*">> \o Fence
    /\ md_out = <<"<p>", PreOpen, "<strong>", "a", "</strong>", PreClose,
                  "</p>">>

\* The lines of the text are table rows, all of them.
AllRows == \A n \in 1..Len(SplitLines(md_in)) : IsRow(SplitLines(md_in)[n])

\* The rows C17 expects of a run of table rows: none for a separator, a
\* header row for the row right before a separator, body rows otherwise.
RECURSIVE ExpectedRows(_)
ExpectedRows(lines) ==
    IF lines = <<>> THEN <<>>
    ELSE IF IsSeparator(Cells(Head(lines))) THEN ExpectedRows(Tail(lines))
    ELSE IF Len(lines) >= 2 /\ IsSeparator(Cells(lines[2]))
    THEN <<RowMarkup(Cells(Head(lines)), "<th>", "</th>")>>
             \o ExpectedRows(Tail(lines))
    ELSE <<RowMarkup(Cells(Head(lines)), "<td>", "</td>")>>
             \o ExpectedRows(Tail(lines))

\* The table rows of a rendered text, in order.
RowsOf(s) ==
    SelectSeq(SplitLines(s), LAMBDA line : line # <<>> /\ line[1] = "<tr>")

\* C17: in a run of pipe-delimited lines a separator row gives no row, the
\* row right before a separator is the header row and every other row is a
\* body row.
C17_HeaderBeforeSeparator ==
    md_stage = 6 /\ AllRows =>
        RowsOf(md_out) = ExpectedRows(SplitLines(Escape(md_in)))

\* Three rows with the separator last: the first row is the header row and
\* the row right before the separator is a body row.
C17_FirstRowIsHeader ==
    /\ md_stage = LastRule
    /\ md_in = <<"|", "a", "|", "\n", "|", " ", "b", " ", "|", "c", "|", "\n",
                 "|", ":", "-", "|", "-", "-", "|">>
    /\ md_out = <<"<p>", TableOpen, "\n",
                  "<tr>", "<th>", "a", "</th>", "</tr>", "\n",
                  "<tr>", "<td>", "b", "</td>", "<td>", "c", "</td>", "</tr>",
                  "\n", "</table>", "</p>">>

-----------------------------------------------------------------------------
(* C18, C19, C20, under SpecTool *)

TheCommand == InputGet(tool.input, "command", <<>>)

\* C18: the one-line summary of a Bash tool shows the command as it is when
\* the command has at most 80 characters, and otherwise its first 77
\* characters and three dots, 80 characters in all; the command shown
\* never has more than 80 characters.
C18_BashSummary ==
    tool.name = "Bash" /\ "summary" \in DOMAIN shown =>
        LET part == shown["summary"][1]
        IN  /\ part.label = <<"$ ">>
            /\ Len(TheCommand) <= 80 => part.text = TheCommand
            /\ Len(TheCommand) > 80 =>
                  /\ SubSeq(part.text, 1, 77) = SubSeq(TheCommand, 1, 77)
                  /\ SubSeq(part.text, 78, 80) = <<".", ".", ".">>
                  /\ Len(part.text) = 80
            /\ Len(part.text) <= 80

\* A command of 200 characters is shown with 80.
C18_Witness ==
    /\ tool.name = "Bash"
    /\ Len(TheCommand) = 200
    /\ "summary" \in DOMAIN shown
    /\ Len(shown["summary"][1].text) = 80
    /\ shown["summary"][1].text[77] = "7"
    /\ shown["summary"][1].text[78] = "."

\* The field of the tool a part shows: the result text, or the value under
\* the key of the part.
FieldOf(key) ==
    IF key = "result" THEN tool.result ELSE InputGet(tool.input, key, <<>>)

\* The number of leading characters two texts have in common.
CommonLength(a, b) ==
    LET m == IF Len(a) <= Len(b) THEN Len(a) ELSE Len(b)
        differing == {i \in 1..m : a[i] # b[i]}
    IN  IF differing = {} THEN m ELSE Least(differing) - 1

\* A part shortens its field when the field has a value and the text shown
\* is not that value.
Shortens(part) ==
    /\ part.key # ""
    /\ FieldOf(part.key) # <<>>
    /\ part.text # FieldOf(part.key)

\* What the part shows after the characters it keeps of the field.
Appended(part) ==
    LET field == FieldOf(part.key)
    IN  SubSeq(part.text, CommonLength(part.text, field) + 1, Len(part.text))

ShownParts ==
    UNION {{shown[f][n] : n \in 1..Len(shown[f])} : f \in DOMAIN shown}

\* C19: whenever the summary, the full detail, the Markdown detail, the
\* plain-text export or the result output shortens a field of a tool, the
\* text emitted after the characters kept states the number of characters of
\* the whole field.
C19_CountWhenCut ==
    \A part \in ShownParts :
        Shortens(part) =>
            Contains(Appended(part), Decimal(Len(FieldOf(part.key))))

\* The summary of a WebFetch with a url of 61 characters shows the first 60
\* characters and nothing else.
C19_SilentCut ==
    /\ tool.name = "WebFetch"
    /\ Len(FieldOf("url")) = 61
    /\ "summary" \in DOMAIN shown
    /\ shown["summary"][1].text = Take(FieldOf("url"), 60)

StyleOf(part) == part.label[1]

\* C20: the result text of a tool is given the error style in the HTML
\* output exactly when the result text contains, in any case and at any
\* position, "error", "traceback", "exception" or "failed"; with or without
\* the error style exactly one output element is emitted for a result text.
C20_ErrorStyle ==
    "html_output" \in DOMAIN shown /\ tool.result # <<>> =>
        /\ Len(shown["html_output"]) = 1
        /\ StyleOf(shown["html_output"][1])
               \in {"tool-output-content error", "tool-output-content"}
        /\ StyleOf(shown["html_output"][1]) = "tool-output-content error"
               <=> HasErrorWord(tool.result)

\* A result text whose only keyword starts after its 2000th character is
\* emitted without the error style.
C20_KeywordMissed ==
    /\ "html_output" \in DOMAIN shown
    /\ tool.result = Ruler(2000) \o <<"e", "r", "r", "o", "r">>
    /\ StyleOf(shown["html_output"][1]) = "tool-output-content"

-----------------------------------------------------------------------------
(* C23, under SpecResults *)

\* The result blocks for id k that carry an image: a sub-block of type
\* "image" with a base64 source, which is what gives a data URI.
WithImages(records, k) ==
    SelectSeq(ResultBlocksFor(records, k), LAMBDA b : SubImages(b) # <<>>)

\* C23: once the first pass has ended, the image list stored for an id is the
\* list of the last result block for the id, in file order, that carries an
\* image; an id without such a block has no list; a later block for the id
\* without an image leaves the list in place.  An invocation of the id
\* shows that list.
C23_LastImagesWin ==
    pc \in {"build", "done"} =>
        /\ \A k \in Ids :
              LET carrying == WithImages(all_records, k)
              IN  IF carrying = <<>>
                  THEN k \notin DOMAIN tool_result_images
                  ELSE /\ k \in DOMAIN tool_result_images
                       /\ tool_result_images[k] = SubImages(Last(carrying))
        /\ \A t \in InvocationsOf(messages) :
              t.id \in Ids =>
                  LET carrying == WithImages(all_records, t.id)
                  IN  t.result_images =
                          IF carrying = <<>> THEN <<>>
                          ELSE SubImages(Last(carrying))

\* Three results for k1: one image, then another image, then no image; the
\* invocation of k1 shows the second.
C23_Witness ==
    /\ pc = "done"
    /\ file = <<UseOne, ResultList, ResultJpeg, ResultStr>>
    /\ tool_result_images["k1"] = <<DataUri(JpegTwo)>>
    /\ \E t \in InvocationsOf(messages) :
          t.id = "k1" /\ t.result_images = <<DataUri(JpegTwo)>>

-----------------------------------------------------------------------------
(* C29, under Spec *)

\* A line that parses but is no object with a "type" key.
Untyped(line) == line.parses /\ ~line.hastype

\* C29: a call that has ended has raised exactly when a line of the file
\* parses without being an object with a "type" key, whatever the other
\* lines are and wherever the line stands; lines that do not parse never
\* make it raise; a call that raised built no turn.
C29_UntypedLineRaises ==
    /\ pc = "done" => \A n \in 1..Len(file) : ~Untyped(file[n])
    /\ pc = "raised" =>
          /\ \E n \in 1..Len(file) : Untyped(file[n])
          /\ messages = <<>>
    /\ (\E n \in 1..Len(file) : Untyped(file[n])) => pc # "build"

\* A log whose second line has no "type", between two records that each
\* give a turn when alone, raised and built nothing.
C29_Witness ==
    /\ pc = "raised"
    /\ file = <<UserPlain, NoTypeLine, UseOne>>
    /\ messages = <<>>

-----------------------------------------------------------------------------
(* C27, under SpecManifest *)

\* The entries of a manifest file for paths other than p.
OthersOf(f, p) == {f.entries[n] : n \in {m \in 1..Len(f.entries) :
                                            f.entries[m].path # p}}

\* C27: a call of update_manifest for path p on a manifest file that holds a
\* list leaves in the file, with the fields they had, exactly the entries
\* the file had for paths other than p, and adds none for those paths; on a
\* file that is absent or cannot be parsed the call does not fail and
\* writes the list of the one entry for p.
C27_OtherEntriesKept ==
    [][LET entry == last_written'[1]
       IN  /\ manifest_file.state = "list" =>
                 /\ OthersOf(manifest_file', entry.path)
                        = OthersOf(manifest_file, entry.path)
                 /\ Len(manifest_file'.entries)
                        = Cardinality(OthersOf(manifest_file, entry.path)) + 1
           /\ manifest_file.state # "list" =>
                 manifest_file' = [state |-> "list", entries |-> <<entry>>]
      ]_vars

\* The file holds the entry written for one path by an earlier call and the
\* entry just written for the other path.
C27_Witness ==
    /\ manifest_file.state = "list"
    /\ Len(manifest_file.entries) = 2
    /\ last_written # <<>>
    /\ last_written[1].path = "p/a.html"
    /\ "p/b.html" \in DOMAIN last_export
    /\ export_count["p/a.html"] = 2
    /\ \E n \in 1..2 : manifest_file.entries[n] = last_export["p/b.html"]

-----------------------------------------------------------------------------
(* C24, under SpecMd *)

ThreeHyphens == <<"-", "-", "-">>

\* The number of the lines of a text that are exactly three hyphens.
RuleLinesOf(text) ==
    Cardinality({n \in 1..Len(SplitLines(text)) :
                    SplitLines(text)[n] = ThreeHyphens})

\* The number of horizontal rules of a rendering.
RulesOf(s) == Cardinality({p \in 1..Len(s) : s[p] = "<hr>"})

\* C24: every line of the text that is exactly three hyphens is rendered as a
\* horizontal rule, next to blank lines or next to other lines: the
\* rendering has one rule for each such line and no three hyphens are left.
C24_EveryRuleLine ==
    md_stage = LastRule =>
        /\ RulesOf(md_out) = RuleLinesOf(md_in)
        /\ RuleLinesOf(md_in) > 0 => ~Contains(md_out, ThreeHyphens)

\* Three hyphens on the line after a text line and before another are left
\* as they are, in the paragraph of the two lines.
C24_AdjacentLineKept ==
    /\ md_stage = LastRule
    /\ md_in = <<"a", "\n", "-", "-", "-", "\n", "a">>
    /\ md_out = <<"<p>", "a", "\n", "-", "-", "-", "\n", "a", "</p>">>

\* Three hyphens after a blank line, at the end, are rendered as a rule.
C24_ParagraphRule ==
    /\ md_stage = LastRule
    /\ md_in = <<"a", "\n", "\n", "-", "-", "-">>
    /\ md_out = <<"<p>", "a", "</p>", "<hr>">>

-----------------------------------------------------------------------------
(* C25, under SpecTool *)

\* The fields of the input a formatter shows, in order, each with the text
\* shown for it: the parts without their labels, the name line and the
\* result left out.
FieldsShown(parts) ==
    LET fields == SelectSeq(parts, LAMBDA part : part.key \notin {"", "result"})
    IN  [n \in 1..Len(fields) |-> <<fields[n].key, fields[n].text>>]

\* C25: for every tool invocation the plain-text export shows the fields
\* that the full detail shows, in the same order and each with the same
\* text, cut at the same length.
C25_RawIsFullDetail ==
    {"detail", "raw"} \subseteq DOMAIN shown =>
        FieldsShown(shown["raw"]) = FieldsShown(shown["detail"])

\* A Task prompt of 501 characters is cut to 500 and three dots in the full
\* detail and is whole in the plain-text export.
C25_PromptCutInDetailOnly ==
    /\ tool.name = "Task"
    /\ Len(FieldOf("prompt")) = 501
    /\ {"detail", "raw"} \subseteq DOMAIN shown
    /\ <<"prompt", Take(FieldOf("prompt"), 500) \o Ellipsis>>
           \in Range(FieldsShown(shown["detail"]))
    /\ <<"prompt", FieldOf("prompt")>> \in Range(FieldsShown(shown["raw"]))

-----------------------------------------------------------------------------
(* C28, under SpecNames *)

\* The file name the claim gives a session name: lower case, every
\* character other than a letter, a digit or a hyphen replaced by a hyphen,
\* the first 50 characters.
FileNameOf(name) ==
    LET lowered == Lower(name)
        kept == {LowerCase[n] : n \in 1..Len(LowerCase)} \cup Digits \cup {"-"}
        whole == [n \in 1..Len(lowered) |->
                     IF lowered[n] \in kept THEN lowered[n] ELSE "-"]
    IN  SubSeq(whole, 1, IF Len(whole) < 50 THEN Len(whole) ELSE 50)

NameOfSession(i) ==
    DetectSessionName(ParseMessages(env.sessions[i].log).messages)

\* The path of the export of session i, whose name is given.
PathOfNamed(i, name) ==
    <<env.sessions[i].project, FileNameOf(name),
      IF args.format = "md" THEN ".md" ELSE ".html">>

PathOfSession(i) == PathOfNamed(i, NameOfSession(i))

\* The sessions of the batch exported so far.
ExportedSoFar ==
    {i \in 1..Len(processed) : SessionOutcome(env.sessions[i]) = "exported"}

\* The session exported last to the path of session i, given the paths
\* of the sessions and the sessions exported.
LastTo(paths, exported, i) ==
    CHOOSE j \in exported :
        /\ paths[j] = paths[i]
        /\ \A k \in exported : paths[k] = paths[i] => k <= j

\* C28: in a batch the export files are those at the paths made of the
\* project name and the file name of the session name; a path that several
\* exported sessions share holds the document of the one processed last, and
\* in an HTML run the manifest has one entry for it, that of the same
\* session; nothing is reported for it, so there may be fewer files and
\* entries than sessions exported.
C28_SharedPathOverwritten ==
    Batch /\ main_pc \in {"batch", "exit0"} =>
        LET names == <<>> \o [i \in 1..Len(env.sessions) |-> NameOfSession(i)]
            paths == <<>> \o [i \in 1..Len(env.sessions) |->
                                 PathOfNamed(i, names[i])]
            exported == ExportedSoFar
        IN  /\ DOMAIN out_files = {paths[i] : i \in exported}
            /\ Cardinality(DOMAIN out_files) <= Cardinality(exported)
            /\ reported = FailureReports(Len(processed))
            /\ \A i \in exported :
                  LET last == LastTo(paths, exported, i)
                  IN  /\ out_files[paths[i]].session = names[last]
                      /\ args.format = "html" =>
                            /\ Cardinality(
                                   {n \in 1..Len(manifest_file.entries) :
                                       manifest_file.entries[n].path = paths[i]})
                                 = 1
                            /\ \E n \in 1..Len(manifest_file.entries) :
                                  /\ manifest_file.entries[n].path = paths[i]
                                  /\ manifest_file.entries[n].session
                                         = names[last]

\* An HTML batch of the sessions named "a" and "A": both are exported, one
\* file and one manifest entry are left, those of "A", and nothing is
\* reported.
C28_Witness ==
    /\ Batch /\ args.format = "html"
    /\ main_pc = "exit0"
    /\ Len(env.sessions) = 2
    /\ NameOfSession(1) = <<"a">> /\ NameOfSession(2) = <<"A">>
    /\ processed = <<1, 2>>
    /\ reported = <<>>
    /\ DOMAIN out_files = {<<"p", <<"a">>, ".html">>}
    /\ out_files[<<"p", <<"a">>, ".html">>].session = <<"A">>
    /\ Len(manifest_file.entries) = 1
    /\ manifest_file.entries[1].session = <<"A">>

\* Two session names of 51 characters that differ in the last character
\* share the file name of their first 50 characters.
C28_LongNamesWitness ==
    /\ Batch /\ main_pc = "exit0"
    /\ Len(env.sessions) = 2
    /\ Len(NameOfSession(1)) = 51 /\ Len(NameOfSession(2)) = 51
    /\ NameOfSession(1) # NameOfSession(2)
    /\ Cardinality(DOMAIN out_files) = 1
    /\ out_files[PathOfSession(2)].session = NameOfSession(2)

-----------------------------------------------------------------------------
(* C30, under SpecMain *)

\* The session the batch is at parses to no visible turn.
AtEmptySession ==
    /\ main_pc = "batch"
    /\ session_idx <= Len(env.sessions)
    /\ ParseMessages(env.sessions[session_idx].log)
           = [status |-> "ok", messages |-> <<>>]

-----------------------------------------------------------------------------
(* C22: the embedded plain text and the end of the script *)

\* The characters after which "</script" ends a script element: the end
\* tag is closed by ">", or goes on with a space or "/".  Tabs and line
\* ends of the text are escaped by json.dumps and do not occur.
AfterTagName == {">", " ", "/"}

\* An end tag of the script element starts at position p of s: the tag
\* name is matched without regard to case.
ScriptEndsAt(s, p) ==
    /\ p + 8 <= Len(s)
    /\ Lower(SubSeq(s, p, p + 7)) = SubSeq(ScriptEndTag, 1, 8)
    /\ s[p + 8] \in AfterTagName

HasScriptEnd(s) == \E p \in 1..Len(s) : ScriptEndsAt(s, p)

\* C22: the string embedded in the page as RAW_TEXT never holds an end tag
\* of the script element, whatever the texts, tool inputs and tool results
\* of the turns are.
C22_NoScriptEnd == embed_pc = "done" => ~HasScriptEnd(raw_text_js)

\* What the replacement does achieve: the one spelling "</script>" does
\* not occur in the embedded string.
C22_ExactSpellingEscaped ==
    embed_pc = "done" =>
        \A p \in 1..Len(raw_text_js) : ~StartsAt(raw_text_js, p, ScriptEndTag)

\* A turn whose text is "</SCRIPT>": the text is embedded as it is.
C22_UpperCaseEmbedded ==
    /\ embed_pc = "done"
    /\ page_turn.texts = <<<<"<", "/", "S", "C", "R", "I", "P", "T", ">">>>>
    /\ HasScriptEnd(raw_text_js)

\* A turn whose text is "</script>": the text is embedded escaped.
C22_LowerCaseEscaped ==
    /\ embed_pc = "done"
    /\ page_turn.texts = <<ScriptEndTag>>
    /\ raw_text_js = <<"\"", "--- ", "You", " ---", "\\", "n">>
                         \o EscapedScriptEndTag \o <<"\\", "n", "\"">>

-----------------------------------------------------------------------------
(* C26: export runs that update the manifest at the same time *)

AllRunsDone == \A r \in RunIds : runs[r].pc = "done"

LastWriter == wrote[Len(wrote)]

OnePerPath(manifest) ==
    \A i, j \in 1..Len(manifest) :
        manifest[i].path = manifest[j].path => i = j

Holds(manifest, entry) == \E n \in 1..Len(manifest) : manifest[n] = entry

\* C26: when every run has finished, the manifest is exactly the list
\* computed by the run that wrote last: it holds that run's entry and at
\* most one entry for a path.
C26_LastWriterWins ==
    AllRunsDone =>
        /\ manifest_file =
               [state |-> "list", entries |-> runs[LastWriter].manifest]
        /\ Holds(manifest_file.entries, runs[LastWriter].entry[1])
        /\ OnePerPath(manifest_file.entries)

\* Both files were open when the first run wrote, and the run that wrote
\* last had the shorter text: the file is the last text followed by the
\* end of the other, which is not JSON.
C26_MixedManifest ==
    /\ AllRunsDone
    /\ manifest_file.state = "corrupt"
    /\ manifest_chars > DumpChars(runs[LastWriter].manifest)

\* What holds of the code: the manifest is the list of the last writer,
\* or it is not JSON.
C26_LastWriterOrMixed ==
    AllRunsDone =>
        \/ /\ manifest_file =
                  [state |-> "list", entries |-> runs[LastWriter].manifest]
           /\ Holds(manifest_file.entries, runs[LastWriter].entry[1])
           /\ OnePerPath(manifest_file.entries)
        \/ manifest_file.state = "corrupt"

\* The last writer's list is whole and the entry of the other run, made
\* for another path, is not in it.
C26_OtherEntryAbsent ==
    /\ AllRunsDone
    /\ manifest_file.state = "list"
    /\ \E r \in RunIds :
           /\ runs[r].rel_path # runs[LastWriter].rel_path
           /\ ~Holds(manifest_file.entries, runs[r].entry[1])

-----------------------------------------------------------------------------
(* C21: the search is an overlay that closeSearch takes away *)

NoHighlightLeft == Spans(dom) = <<>>

SameTextContent ==
    /\ Len(dom) = Len(loaded.dom)
    /\ \A i \in 1..Len(dom) :
           TextContent(dom[i].leaves) = TextContent(loaded.dom[i].leaves)

\* C21: after any searches and selections followed by closeSearch, no span
\* of the search remains, every element has the text content it was
\* loaded with, and RAW_TEXT is what it was.
C21_CloseRestores ==
    search_pc = "closed" =>
        /\ NoHighlightLeft
        /\ SameTextContent
        /\ raw_text_js = loaded.RAW_TEXT

\* More than the text: the text nodes are the ones the page was loaded
\* with, and the list and the hit count of the panel are empty.
C21_NodesRestored ==
    search_pc = "closed" =>
        /\ dom = loaded.dom
        /\ currentHighlights = 0
        /\ ~panel.open /\ panel.list = <<>> /\ panel.hitCount = <<>>

\* The text content is the same while the highlights are shown.
C21_TextKeptThroughout == search_pc # "idle" => SameTextContent

\* The search was closed after a search with two hits or more, one of them
\* inside the text of a <strong> element that is longer than the query, so
\* that the text node was split and has been put together again.
C21_Witness ==
    /\ search_pc = "closed"
    /\ panel.title >= 2
    /\ \E i \in 1..Len(dom) :
           \E n \in 1..Len(dom[i].leaves) :
               /\ dom[i].leaves[n].parent = 1
               /\ Len(dom[i].leaves[n].text) > Len(panel.info[1])
               /\ MatchesFrom(dom[i].leaves[n].text, 1, panel.info[1]) # <<>>

\* A search is shown with an active highlight inside a <strong> element.
C21_ActiveShown ==
    /\ search_pc = "searched"
    /\ panel.selected > 0
    /\ \E i \in 1..Len(dom) :
           \E n \in 1..Len(dom[i].leaves) :
               /\ dom[i].leaves[n].parent = 1
               /\ dom[i].leaves[n].cls = "search-highlight-active"

\* The panel is closed and its title still tells the hits of the last
\* search.
C21_TitleKept == search_pc = "closed" /\ panel.title > 0 /\ ~panel.open

====
